---- MODULE Spec2Model ----
(***************************************************************************)
(* Model of the deribit-data-downloader ingestion path:                    *)
(*   fetcher.py     DeribitFetcher.fetch_trades_streaming                  *)
(*   storage.py     ParquetStorage (save_trades, save_dvol, _atomic_write) *)
(*   checkpoint.py  CheckpointManager                                      *)
(*   manifest.py    ManifestManager                                        *)
(*   models.py      CheckpointState.update_progress                        *)
(*   cli.py         backfill                                               *)
(*                                                                         *)
(* Timestamps are integer milliseconds.  A file is a value on "disk"; a    *)
(* write of a file takes three steps (the temp file is opened and partly   *)
(* written, the temp file is complete, the temp file is renamed over the   *)
(* target) and the process may crash between any two steps.                *)
(*                                                                         *)
(* cli.py:177-183 passes dead_letter_queue= to fetch_trades_streaming,     *)
(* which fetcher.py:183-189 does not declare.  The loop of backfill is     *)
(* modelled driving the generator with the parameters it does declare.     *)
(***************************************************************************)
EXTENDS Integers, Sequences, FiniteSets, TLC

\* ------------------------------------------------------------------ bounds
\* config.py keeps batch_size >= 100, flush_every_pages >= 10 and
\* max_pages >= 100; the model scales pages, batches and days down.
MaxTs == 3          \* timestamps are 1..MaxTs
DayMs == 2          \* milliseconds per UTC day in the model
SecondMs == 2       \* milliseconds per second in the model
MaxTrades == 4      \* length of the remote trade history
MaxBatchSize == 2   \* config.batch_size is 1..MaxBatchSize
MaxFlush == 2       \* config.flush_every_pages is 1..MaxFlush
MaxPages == 3       \* config.max_pages
MaxCrashes == 1     \* crashes per behaviour
MaxCalls == 2       \* client calls per behaviour of the store-level specification
MaxBatchLen == 2    \* length of a batch handed to save_trades by a client
MaxId == 2          \* trade identifiers are 1..MaxId in client batches
MaxRetries == 3     \* config.max_retries is 1..MaxRetries
MaxPageLen == 2     \* raw records in a page of SpecParse
MaxFiles == 2       \* members of "files" in a manifest.json of SpecConstruct
MaxIv == 2          \* a cell of a volatility row is 0..MaxIv
MaxRawIv == 502     \* the raw "iv" of a record is -1..MaxRawIv percent
MaxCeiling == 2     \* config.max_pages is 1..MaxCeiling against a free server
MaxDelay == 2       \* config.rate_limit_delay is 0..MaxDelay ticks
MaxTime == 6        \* ticks of real time in a behaviour of SpecRate

StartTs == 1
EndTs == MaxTs
Timestamps == StartTs..EndTs
Currencies == {"BTC", "ETH"}

VARIABLES
  cfg,        \* DeribitConfig: [batch_size, flush_every_pages, max_pages]
  remote,     \* the remote trade history, ascending by timestamp
  input,      \* [cur, batch]: the arguments the client of SpecSave passes to save_trades
  parts,      \* <currency, name> -> file : the *.parquet files under the catalog root
  partTmp,    \* <currency, name> -> file : the *.parquet.tmp files under the catalog root
  ckptFile,   \* currency -> file : <currency>_checkpoint.json in the checkpoint directory
  ckptTmp,    \* currency -> file : <currency>_checkpoint.tmp in the checkpoint directory
  manFile,    \* ManifestPath -> file : manifest.json, when it exists
  manTmp,     \* ManifestPath -> file : manifest.json.tmp, when it exists
  pc,         \* position of the command (backfill) or of the client
  op,         \* position inside the store operation in progress
  args,       \* arguments and locals of the store operation in progress
  manifest,   \* ManifestManager._manifest (in memory)
  checkpoint, \* the CheckpointState held by backfill (in memory)
  g,          \* the fetch_trades_streaming generator
  hist,       \* history variables used to state the properties
  call,       \* the single call under test: its argument, locals and outcome
  procs       \* currency -> the backfill process of that currency, when two run at once

diskVars == <<parts, partTmp, ckptFile, ckptTmp, manFile, manTmp>>
vars == <<cfg, remote, input, parts, partTmp, ckptFile, ckptTmp, manFile, manTmp,
          pc, op, args, manifest, checkpoint, g, hist, call, procs>>

\* ----------------------------------------------------------- small helpers
EmptyFn == [x \in {} |-> 0]

Put(f, k, v) == [x \in (DOMAIN f) \cup {k} |-> IF x = k THEN v ELSE f[x]]

Drop(f, k) == [x \in (DOMAIN f) \ {k} |-> f[x]]

Range(s) == {s[i] : i \in DOMAIN s}

Last(s) == s[Len(s)]

\* trade.timestamp.strftime("%Y-%m-%d"): the UTC day of a timestamp
DateKey(ts) == ts \div DayMs

\* A path under the catalog root is <currency, name>: name is the day for
\* <currency>/trades/<day>.parquet and DvolName for <currency>/dvol/dvol.parquet
DvolName == -1

\* ---------------------------------------------------------------- files
\* A file on disk is [whole, data]: whole = FALSE is a file whose write was cut
\* short.  A directory is a function from the paths that exist to their files.
File(data) == [whole |-> TRUE, data |-> data]

Torn(data) == [whole |-> FALSE, data |-> data]

\* << >> when the path does not exist, <<file>> when it does
Lookup(dir, p) == IF p \in DOMAIN dir THEN <<dir[p]>> ELSE << >>

\* A write that puts the bytes straight into the target (no temp file).
InPlaceWrite(d, p, data, step) ==
  CASE step = "open"   -> [file |-> Put(d.file, p, Torn(data)), tmp |-> d.tmp]
    [] step = "flush"  -> [file |-> Put(d.file, p, File(d.file[p].data)), tmp |-> d.tmp]
    [] step = "rename" -> d

\* A write that copies the temp file over the target and leaves the temp file.
CopyWrite(d, p, data, step) ==
  CASE step = "open"   -> [file |-> d.file, tmp |-> Put(d.tmp, p, Torn(data))]
    [] step = "flush"  -> [file |-> d.file, tmp |-> Put(d.tmp, p, File(d.tmp[p].data))]
    [] step = "rename" -> [file |-> Put(d.file, p, d.tmp[p]), tmp |-> d.tmp]

\* ParquetStorage._atomic_write: pq.write_table(table, tmp_path), then
\* tmp_path.rename(file_path).  d = [file, tmp] is the directory pair.
AtomicWrite(d, p, data, step) ==
  CASE step = "open"   -> [file |-> d.file, tmp |-> Put(d.tmp, p, Torn(data))]
    [] step = "flush"  -> [file |-> d.file, tmp |-> Put(d.tmp, p, File(d.tmp[p].data))]
    [] step = "rename" -> [file |-> Put(d.file, p, d.tmp[p]), tmp |-> Drop(d.tmp, p)]

\* CheckpointManager.save: tmp_path.write_text(...), then tmp_path.rename(file_path)
CheckpointWrite(d, p, data, step) ==
  CASE step = "open"   -> [file |-> d.file, tmp |-> Put(d.tmp, p, Torn(data))]
    [] step = "flush"  -> [file |-> d.file, tmp |-> Put(d.tmp, p, File(d.tmp[p].data))]
    [] step = "rename" -> [file |-> Put(d.file, p, d.tmp[p]), tmp |-> Drop(d.tmp, p)]

\* ManifestManager.save: tmp_path.write_text(...), then tmp_path.rename(manifest_path)
ManifestWrite(d, p, data, step) ==
  CASE step = "open"   -> [file |-> d.file, tmp |-> Put(d.tmp, p, Torn(data))]
    [] step = "flush"  -> [file |-> d.file, tmp |-> Put(d.tmp, p, File(d.tmp[p].data))]
    [] step = "rename" -> [file |-> Put(d.file, p, d.tmp[p]), tmp |-> Drop(d.tmp, p)]

ManifestPath == "manifest.json"

\* -------------------------------------------------------------- storage.py
\* the keys of by_date in the order of sorted(by_date.items())
RECURSIVE AscendingSeq(_)
AscendingSeq(S) ==
  IF S = {} THEN << >>
  ELSE LET m == CHOOSE x \in S : \A y \in S : x <= y
       IN <<m>> \o AscendingSeq(S \ {m})

\* One date per trade of the batch, repeated when trades share a day.
EveryTradeDate(trades) == [i \in DOMAIN trades |-> DateKey(trades[i].ts)]

SortedDates(trades) == AscendingSeq({DateKey(t.ts) : t \in Range(trades)})

\* Every trade of the batch, whatever its day.
WholeBatch(trades, d) == trades

\* by_date[date_key]: the trades of one day, in the order supplied
DateTrades(trades, d) == SelectSeq(trades, LAMBDA t : DateKey(t.ts) = d)

\* df.drop_duplicates(subset=[key], keep="last"): keys[i] is the key of rows[i];
\* a row stays when no later row has its key; the rows that stay keep their order
RECURSIVE KeepLast(_, _)
KeepLast(rows, keys) ==
  IF rows = << >> THEN << >>
  ELSE IF \E j \in DOMAIN Tail(keys) : Tail(keys)[j] = Head(keys)
       THEN KeepLast(Tail(rows), Tail(keys))
       ELSE <<Head(rows)>> \o KeepLast(Tail(rows), Tail(keys))

DropDuplicates(rows, keys) == KeepLast(rows, keys)

\* df.sort_values("timestamp"): the default sort is not stable, so rows of one
\* timestamp come out in any order.  The result is the set of the orders the
\* sort may produce for the rows at the indices I.
RECURSIVE SortAt(_, _)
SortAt(rows, I) ==
  IF I = {} THEN {<< >>}
  ELSE LET m == CHOOSE i \in I : \A j \in I : rows[i].ts <= rows[j].ts
       IN UNION {{<<rows[i]>> \o r : r \in SortAt(rows, I \ {i})} :
                 i \in {k \in I : rows[k].ts = rows[m].ts}}

SortValues(rows) == SortAt(rows, DOMAIN rows)

TradeIds(rows) == [i \in DOMAIN rows |-> rows[i].id]

RowTimestamps(rows) == [i \in DOMAIN rows |-> rows[i].ts]

\* save_trades, one partition: the tables the merge with an existing file may
\* produce, or the day's trades as supplied when the file does not exist
TradeTables(dir, p, date_trades) ==
  IF p \in DOMAIN dir
  THEN LET merged == dir[p].data \o date_trades
       IN SortValues(DropDuplicates(merged, TradeIds(merged)))
  ELSE {date_trades}

\* save_dvol: the merged table, or the candles as supplied
DvolTables(dir, p, candles) ==
  IF p \in DOMAIN dir
  THEN LET merged == dir[p].data \o candles
       IN SortValues(DropDuplicates(merged, RowTimestamps(merged)))
  ELSE {candles}

\* load_trades(currency): the partitions of the currency, by file name, concatenated
RECURSIVE ConcatParts(_, _, _)
ConcatParts(dir, c, days) ==
  IF days = << >> THEN << >>
  ELSE dir[<<c, Head(days)>>].data \o ConcatParts(dir, c, Tail(days))

\* trades_dir.glob("*.parquet") of a currency: the days that have a partition
TradeDays(dir, c) == {p[2] : p \in {q \in DOMAIN dir : q[1] = c /\ q[2] # DvolName}}

LoadTrades(dir, c) == ConcatParts(dir, c, AscendingSeq(TradeDays(dir, c)))

\* ------------------------------------------------- models.py, checkpoint.py
\* CheckpointManager.create_initial
CreateInitial(c) ==
  [currency |-> c, last_timestamp_ms |-> 0, last_page |-> 0,
   trades_fetched |-> 0, files_written |-> << >>]

\* CheckpointState.update_progress; file_written is << >> (None) or <<path>>
UpdateProgress(s, timestamp_ms, page, trades_count, file_written) ==
  [currency |-> s.currency,
   last_timestamp_ms |-> timestamp_ms,
   last_page |-> page,
   trades_fetched |-> s.trades_fetched + trades_count,
   files_written |-> IF file_written # << >> /\ file_written[1] \notin Range(s.files_written)
                     THEN Append(s.files_written, file_written[1])
                     ELSE s.files_written]

\* CheckpointManager.exists
CheckpointExists(dir, c) == c \in DOMAIN dir

\* CheckpointManager.load: << >> (None) for a missing file and for a file that
\* does not parse, <<state>> otherwise
LoadCheckpoint(dir, c) ==
  IF c \notin DOMAIN dir THEN << >>
  ELSE IF ~dir[c].whole THEN << >>
  ELSE <<dir[c].data>>

\* CheckpointManager._cleanup_stale_temps: every *.tmp of the checkpoint directory
CleanupStaleTemps(tmpdir) == EmptyFn

\* ParquetStorage.__init__: creates the catalog directory and removes nothing
StorageInit(tmpdir) == tmpdir

\* ------------------------------------------------------------- manifest.py
\* ManifestManager._compute_sha256 with stat().st_size and read_metadata: the
\* digest of a file is modelled by its bytes (no two contents share a digest)
Entry(file) == [sha256 |-> file, size_bytes |-> Len(file.data), row_count |-> Len(file.data)]

\* ManifestManager.update_file (the file exists)
UpdateFile(m, dir, p) == Put(m, p, Entry(dir[p]))

\* the loop "for f in written_files: manifest.update_file(f)" of backfill
RECURSIVE UpdateFiles(_, _, _)
UpdateFiles(m, dir, paths) ==
  IF paths = << >> THEN m
  ELSE UpdateFiles(UpdateFile(m, dir, Head(paths)), dir, Tail(paths))

\* A verification that compares the size only.
VerifySizeOnly(m, dir, p) ==
  /\ p \in DOMAIN m
  /\ m[p].size_bytes = Len(dir[p].data)

\* ManifestManager.verify_file (the file exists)
VerifyFile(m, dir, p) ==
  /\ p \in DOMAIN m
  /\ m[p].sha256 = dir[p]
  /\ m[p].size_bytes = Len(dir[p].data)

\* ManifestManager.verify_all: the entries that fail, because the file is
\* missing or because verify_file is false
FailedFiles(m, dir) == {p \in DOMAIN m : p \notin DOMAIN dir \/ ~VerifyFile(m, dir, p)}

\* The text of manifest.json is modelled as a document [kind, files]:
\*   kind "text"    the text is not JSON (empty, truncated, garbage)
\*   kind "array"   JSON whose top level is not an object
\*   kind "object"  a JSON object; files is its "files" member in document
\*                  order, each member [path, keys, sha256, size_bytes,
\*                  row_count] where keys are the keys the member has
EntryKeys == {"sha256", "size_bytes", "row_count"}

\* the order of sorted(self._manifest.items()): relative paths compare as
\* strings, "BTC/..." before "ETH/...", "dvol/..." before "trades/<day>"
CurRank(c) == IF c = "BTC" THEN 1 ELSE 2

PathBefore(p, q) == CurRank(p[1]) < CurRank(q[1]) \/ (p[1] = q[1] /\ p[2] < q[2])

RECURSIVE SortedPaths(_)
SortedPaths(S) ==
  IF S = {} THEN << >>
  ELSE LET first == CHOOSE x \in S : \A y \in S \ {x} : PathBefore(x, y)
       IN <<first>> \o SortedPaths(S \ {first})

\* ManifestEntry.to_dict under its path
ToDict(path, e) ==
  [path |-> path, keys |-> EntryKeys,
   sha256 |-> e.sha256, size_bytes |-> e.size_bytes, row_count |-> e.row_count]

\* the document ManifestManager.save writes
ManifestDoc(m) ==
  LET sp == SortedPaths(DOMAIN m)
  IN [kind |-> "object", files |-> [i \in DOMAIN sp |-> ToDict(sp[i], m[sp[i]])]]

\* ManifestEntry.from_dict: <<entry>>, or << >> when data[key] raises KeyError
FromDict(d) ==
  IF EntryKeys \subseteq d.keys
  THEN <<[sha256 |-> d.sha256, size_bytes |-> d.size_bytes, row_count |-> d.row_count]>>
  ELSE << >>

\* the loop of _load: the entries are set one by one, in document order, until
\* from_dict raises KeyError, which ends the loop
RECURSIVE LoadEntries(_, _)
LoadEntries(m, files) ==
  IF files = << >> THEN m
  ELSE LET e == FromDict(Head(files))
       IN IF e = << >> THEN m
          ELSE LoadEntries(Put(m, Head(files).path, e[1]), Tail(files))

\* ManifestManager._load of a file that exists: the entries it leaves in
\* _manifest and the exception that leaves it ("" when none does);
\* json.JSONDecodeError and KeyError are caught, data.get of a value that is
\* not a dict raises AttributeError, which is not
ManifestLoad(doc) ==
  CASE doc.kind = "text"   -> [entries |-> EmptyFn, raised |-> ""]
    [] doc.kind = "array"  -> [entries |-> EmptyFn, raised |-> "AttributeError"]
    [] doc.kind = "object" -> [entries |-> LoadEntries(EmptyFn, doc.files), raised |-> ""]

\* ManifestManager._load: the entries of manifest.json; none when the file is
\* missing or does not parse
LoadManifest(dir) ==
  IF ManifestPath \notin DOMAIN dir THEN EmptyFn
  ELSE IF ~dir[ManifestPath].whole THEN EmptyFn
  ELSE ManifestLoad(dir[ManifestPath].data).entries

\* -------------------------------------------------------------- fetcher.py
\* _parse_trade: << >> (None) for a record that does not parse
ParseTrade(raw) == IF raw.ok THEN <<[id |-> raw.id, ts |-> raw.ts]>> ELSE << >>

RECURSIVE ParseAll(_)
ParseAll(raws) ==
  IF raws = << >> THEN << >> ELSE ParseTrade(Head(raws)) \o ParseAll(Tail(raws))

\* The request of fetch_trades_streaming (count, sorting=asc, start_timestamp,
\* end_timestamp) and the answer read from it: the first count trades of the
\* range in ascending order, and has_more when the range holds more
Response(start_timestamp) ==
  LET inrange == SelectSeq(remote, LAMBDA r : r.ts >= start_timestamp /\ r.ts <= EndTs)
      n == IF Len(inrange) < cfg.batch_size THEN Len(inrange) ELSE cfg.batch_size
  IN [trades |-> SubSeq(inrange, 1, n), has_more |-> Len(inrange) > cfg.batch_size]

\* The generator of fetch_trades_streaming: start_timestamp is
\* params["start_timestamp"]; at is where it stands: "head" at the test of the
\* while loop, "yield" suspended at the yield inside the loop, "final" suspended
\* at the yield after the loop, "end" exhausted; why records how the loop ended.
\* resume_from_ms is << >> (None) or <<ms>>.
GenStart(resume_from_ms) ==
  [start_timestamp |-> IF resume_from_ms # << >> /\ resume_from_ms[1] # 0
                          /\ resume_from_ms[1] > StartTs
                       THEN resume_from_ms[1] + 1 ELSE StartTs,
   page |-> 0, batch |-> << >>, has_more |-> TRUE, at |-> "head", why |-> ""]

\* A generator that ends without yielding what is left in the batch.
DropTail(s, why) == [s EXCEPT !.at = "end", !.why = why]

\* after the loop: "if batch: yield batch"
GenTail(s, why) ==
  IF s.batch # << >> THEN [s EXCEPT !.at = "final", !.why = why]
  ELSE [s EXCEPT !.at = "end", !.why = why]

\* the safety limit at the end of the loop body
GenLimit(s) ==
  IF s.page > cfg.max_pages THEN GenTail(s, "ceiling") ELSE [s EXCEPT !.at = "head"]

\* one pass of the while loop, from its test; r is what the request of the
\* pass is answered with
GenPageOn(s, r) ==
  IF ~s.has_more THEN GenTail(s, "no_more")
  ELSE IF r.trades = << >>
          THEN GenTail([s EXCEPT !.has_more = r.has_more], "empty")
          ELSE LET s1 == [s EXCEPT
                            !.has_more = r.has_more,
                            !.batch = s.batch \o ParseAll(r.trades),
                            !.start_timestamp = IF r.has_more THEN Last(r.trades).ts + 1
                                                ELSE s.start_timestamp,
                            !.page = s.page + 1]
               IN IF s1.page % cfg.flush_every_pages = 0 /\ s1.batch # << >>
                  THEN [s1 EXCEPT !.at = "yield"]
                  ELSE GenLimit(s1)

GenPage(s) == GenPageOn(s, Response(s.start_timestamp))

\* the generator runs on, up to and including its next request, which is
\* answered with r
GenStepOn(s, r) ==
  CASE s.at = "head"  -> GenPageOn(s, r)
    [] s.at = "yield" -> LET s1 == GenLimit([s EXCEPT !.batch = << >>])
                         IN IF s1.at = "head" THEN GenPageOn(s1, r) ELSE s1
    [] s.at = "final" -> [s EXCEPT !.at = "end", !.batch = << >>]
    [] s.at = "end"   -> s

\* the generator runs on against the remote history
GenStep(s) == GenStepOn(s, Response(s.start_timestamp))

\* the step GenStepOn takes from s sends a request
SendsRequest(s) ==
  CASE s.at = "head"  -> s.has_more
    [] s.at = "yield" -> GenLimit([s EXCEPT !.batch = << >>]).at = "head" /\ s.has_more
    [] OTHER          -> FALSE

Yields(s) == s.at \in {"yield", "final"}

\* "for batch in fetch_trades_streaming(...)" run to exhaustion from s: the
\* trades of the batches it yields, in order
RECURSIVE Drain(_)
Drain(s) ==
  IF s.at = "end" THEN << >>
  ELSE LET s1 == GenStep(s)
       IN (IF Yields(s1) THEN s1.batch ELSE << >>) \o Drain(s1)

\* ------------------------------------------------------------ process state
Cur == "BTC"    \* the currency of the backfill

NoArgs == [fn |-> "", cur |-> "", batch |-> << >>, todo |-> << >>,
           written |-> << >>, state |-> << >>]

NoGen == [start_timestamp |-> 0, page |-> 0, batch |-> << >>, has_more |-> FALSE,
          at |-> "end", why |-> ""]

NoWrite == [kind |-> "none", path |-> "", old |-> << >>, new |-> << >>]

\* hist: crashes  the crashes so far
\*       calls    the client calls so far
\*       out      the trades the generator has yielded, in order (in a
\*                backfill: since the backfill started)
\*       w        the file write begun last: its target, the target's file
\*                before it (<< >> when it did not exist) and the file written
\*       norsm    a backfill was started without --resume after a crash
\*       midcrash a crash hit elsewhere than between two batches
\*       ran      the partition files the current backfill has written
NoHist == [crashes |-> 0, calls |-> 0, out |-> << >>, w |-> NoWrite,
           norsm |-> FALSE, midcrash |-> FALSE, ran |-> {}]

Idle == op \in {"none", "ret"}

\* ------------------------------------------- steps of the store operations
\* the table written by the _atomic_write call of save_trades / save_dvol
Tables(p) ==
  IF args.fn = "save_dvol" THEN DvolTables(parts, p, args.batch)
  ELSE TradeTables(parts, p, DateTrades(args.batch, p[2]))

\* save_trades / save_dvol up to pq.write_table having created the temp file
StoreWriteOpen ==
  /\ op = "st"
  /\ LET p == <<args.cur, Head(args.todo)>>
     IN /\ p \in DOMAIN parts => parts[p].whole
        /\ \E table \in Tables(p) :
             LET d == AtomicWrite([file |-> parts, tmp |-> partTmp], p, table, "open")
             IN /\ parts' = d.file
                /\ partTmp' = d.tmp
                /\ hist' = [hist EXCEPT !.w = [kind |-> "part", path |-> p,
                                               old |-> Lookup(parts, p),
                                               new |-> <<File(table)>>]]
  /\ op' = "st_flush"
  /\ UNCHANGED <<call, procs, cfg, remote, input, ckptFile, ckptTmp, manFile, manTmp, pc, args,
                 manifest, checkpoint, g>>

\* pq.write_table returns: the temp file is complete
StoreWriteFlush ==
  /\ op = "st_flush"
  /\ LET p == <<args.cur, Head(args.todo)>>
         d == AtomicWrite([file |-> parts, tmp |-> partTmp], p, << >>, "flush")
     IN /\ parts' = d.file
        /\ partTmp' = d.tmp
  /\ op' = "st_rename"
  /\ UNCHANGED <<call, procs, cfg, remote, input, ckptFile, ckptTmp, manFile, manTmp, pc, args,
                 manifest, checkpoint, g, hist>>

\* tmp_path.rename(file_path); written_files.append(file_path); next day or return
StoreWriteRename ==
  /\ op = "st_rename"
  /\ LET p == <<args.cur, Head(args.todo)>>
         d == AtomicWrite([file |-> parts, tmp |-> partTmp], p, << >>, "rename")
         more == Tail(args.todo) # << >>
     IN /\ parts' = d.file
        /\ partTmp' = d.tmp
        /\ args' = [args EXCEPT !.todo = Tail(args.todo),
                                !.written = Append(args.written, p)]
        /\ op' = IF more THEN "st" ELSE "ret"
        /\ hist' = [hist EXCEPT
                      !.ran = IF args.fn = "save_trades" THEN hist.ran \cup {p} ELSE hist.ran]
  /\ UNCHANGED <<call, procs, cfg, remote, input, ckptFile, ckptTmp, manFile, manTmp, pc,
                 manifest, checkpoint, g>>

\* CheckpointManager.save up to write_text having created the temp file
CheckpointSaveOpen ==
  /\ op = "ck"
  /\ LET c == args.state[1].currency
         d == CheckpointWrite([file |-> ckptFile, tmp |-> ckptTmp], c, args.state[1], "open")
     IN /\ ckptFile' = d.file
        /\ ckptTmp' = d.tmp
        /\ hist' = [hist EXCEPT !.w = [kind |-> "ckpt", path |-> c,
                                       old |-> Lookup(ckptFile, c),
                                       new |-> <<File(args.state[1])>>]]
  /\ op' = "ck_flush"
  /\ UNCHANGED <<call, procs, cfg, remote, input, parts, partTmp, manFile, manTmp, pc, args,
                 manifest, checkpoint, g>>

CheckpointSaveFlush ==
  /\ op = "ck_flush"
  /\ LET c == args.state[1].currency
         d == CheckpointWrite([file |-> ckptFile, tmp |-> ckptTmp], c, << >>, "flush")
     IN /\ ckptFile' = d.file
        /\ ckptTmp' = d.tmp
  /\ op' = "ck_rename"
  /\ UNCHANGED <<call, procs, cfg, remote, input, parts, partTmp, manFile, manTmp, pc, args,
                 manifest, checkpoint, g, hist>>

CheckpointSaveRename ==
  /\ op = "ck_rename"
  /\ LET c == args.state[1].currency
         d == CheckpointWrite([file |-> ckptFile, tmp |-> ckptTmp], c, << >>, "rename")
     IN /\ ckptFile' = d.file
        /\ ckptTmp' = d.tmp
  /\ op' = "ret"
  /\ UNCHANGED <<call, procs, cfg, remote, input, parts, partTmp, manFile, manTmp, pc, args,
                 manifest, checkpoint, g, hist>>

\* ManifestManager.save up to write_text having created the temp file
ManifestSaveOpen ==
  /\ op = "ms"
  /\ LET d == ManifestWrite([file |-> manFile, tmp |-> manTmp], ManifestPath,
                            ManifestDoc(manifest), "open")
     IN /\ manFile' = d.file
        /\ manTmp' = d.tmp
        /\ hist' = [hist EXCEPT !.w = [kind |-> "manifest", path |-> ManifestPath,
                                       old |-> Lookup(manFile, ManifestPath),
                                       new |-> <<File(ManifestDoc(manifest))>>]]
  /\ op' = "ms_flush"
  /\ UNCHANGED <<call, procs, cfg, remote, input, parts, partTmp, ckptFile, ckptTmp, pc, args,
                 manifest, checkpoint, g>>

ManifestSaveFlush ==
  /\ op = "ms_flush"
  /\ LET d == ManifestWrite([file |-> manFile, tmp |-> manTmp], ManifestPath, << >>, "flush")
     IN /\ manFile' = d.file
        /\ manTmp' = d.tmp
  /\ op' = "ms_rename"
  /\ UNCHANGED <<call, procs, cfg, remote, input, parts, partTmp, ckptFile, ckptTmp, pc, args,
                 manifest, checkpoint, g, hist>>

ManifestSaveRename ==
  /\ op = "ms_rename"
  /\ LET d == ManifestWrite([file |-> manFile, tmp |-> manTmp], ManifestPath, << >>, "rename")
     IN /\ manFile' = d.file
        /\ manTmp' = d.tmp
  /\ op' = "ret"
  /\ UNCHANGED <<call, procs, cfg, remote, input, parts, partTmp, ckptFile, ckptTmp, pc, args,
                 manifest, checkpoint, g, hist>>

\* The process dies: memory is lost, the disk stays as it is.
Crash ==
  /\ pc \notin {"idle", "done"}
  /\ hist.crashes < MaxCrashes
  /\ pc' = "idle"
  /\ op' = "none"
  /\ args' = NoArgs
  /\ manifest' = EmptyFn
  /\ checkpoint' = << >>
  /\ g' = NoGen
  /\ hist' = [hist EXCEPT !.crashes = hist.crashes + 1,
                          !.midcrash = hist.midcrash \/ ~(pc = "ckpt" /\ op = "ret"),
                          !.ran = {}]
  /\ UNCHANGED <<call, procs, cfg, remote, input, parts, partTmp, ckptFile, ckptTmp, manFile, manTmp>>

StoreSteps ==
  \/ StoreWriteOpen \/ StoreWriteFlush \/ StoreWriteRename
  \/ CheckpointSaveOpen \/ CheckpointSaveFlush \/ CheckpointSaveRename
  \/ ManifestSaveOpen \/ ManifestSaveFlush \/ ManifestSaveRename

\* ------------------------------------------------------ cli.py: backfill
\* backfill from its start to the creation of the generator: the managers are
\* constructed, the checkpoint is loaded when --resume is given
BackfillStart(resume) ==
  /\ pc \in {"idle", "failed"}
  /\ LET loaded == IF resume /\ CheckpointExists(ckptFile, Cur)
                   THEN LoadCheckpoint(ckptFile, Cur) ELSE << >>
         resume_from_ms == IF loaded # << >> THEN <<loaded[1].last_timestamp_ms>> ELSE << >>
     IN /\ checkpoint' = IF loaded # << >> THEN loaded ELSE <<CreateInitial(Cur)>>
        /\ g' = GenStart(resume_from_ms)
        /\ hist' = [hist EXCEPT
                      !.norsm = hist.norsm \/ (~resume /\ hist.crashes > 0),
                      !.ran = {},
                      !.out = << >>]
  /\ ckptTmp' = CleanupStaleTemps(ckptTmp)
  /\ partTmp' = StorageInit(partTmp)
  /\ manifest' = LoadManifest(manFile)
  /\ pc' = "fetch"
  /\ op' = "none"
  /\ args' = NoArgs
  /\ UNCHANGED <<call, procs, cfg, remote, input, parts, ckptFile, manFile, manTmp>>

\* A loop body that saves the checkpoint of a batch before the batch is stored.
CheckpointFirst ==
  /\ pc = "fetch" \/ (pc = "ckpt" /\ op = "ret")
  /\ g.at # "end"
  /\ g' = GenStep(g)
  /\ IF Yields(g')
     THEN LET next == UpdateProgress(checkpoint[1], Last(g'.batch).ts,
                                     checkpoint[1].last_page + cfg.flush_every_pages,
                                     Len(g'.batch), << >>)
          IN /\ pc' = "ckpt"
             /\ op' = "ck"
             /\ checkpoint' = <<next>>
             /\ args' = [fn |-> "save_trades", cur |-> Cur, batch |-> g'.batch,
                         todo |-> SortedDates(g'.batch), written |-> << >>,
                         state |-> <<next>>]
     ELSE /\ pc' = IF g'.at = "end" THEN "finish" ELSE "fetch"
          /\ op' = IF g'.at = "end" THEN "ms" ELSE "none"
          /\ args' = NoArgs
          /\ UNCHANGED checkpoint
  /\ hist' = [hist EXCEPT !.out = IF Yields(g') THEN hist.out \o g'.batch ELSE hist.out]
  /\ UNCHANGED <<call, procs, cfg, remote, input, parts, partTmp, ckptFile, ckptTmp, manFile, manTmp,
                 manifest>>

\* the for loop asks the generator for its next batch: the generator runs one
\* request further; a batch starts save_trades, exhaustion starts manifest.save
FetchNext ==
  /\ pc = "fetch" \/ (pc = "ckpt" /\ op = "ret")
  /\ g.at # "end"
  /\ g' = GenStep(g)
  /\ IF Yields(g')
     THEN /\ pc' = "save"
          /\ op' = "st"
          /\ args' = [fn |-> "save_trades", cur |-> Cur, batch |-> g'.batch,
                      todo |-> SortedDates(g'.batch), written |-> << >>, state |-> << >>]
     ELSE IF g'.at = "end"
     THEN /\ pc' = "finish"
          /\ op' = "ms"
          /\ args' = NoArgs
     ELSE /\ pc' = "fetch"
          /\ op' = "none"
          /\ args' = NoArgs
  /\ hist' = [hist EXCEPT !.out = IF Yields(g') THEN hist.out \o g'.batch ELSE hist.out]
  /\ UNCHANGED <<call, procs, cfg, remote, input, parts, partTmp, ckptFile, ckptTmp, manFile, manTmp,
                 manifest, checkpoint>>

\* save_trades has returned: the manifest entries of the written files are
\* updated, the checkpoint is advanced and checkpoint_mgr.save begins
AfterSave ==
  /\ pc = "save" /\ op = "ret"
  /\ manifest' = UpdateFiles(manifest, parts, args.written)
  /\ LET next == UpdateProgress(checkpoint[1], Last(args.batch).ts,
                                checkpoint[1].last_page + cfg.flush_every_pages,
                                Len(args.batch),
                                IF args.written # << >> THEN <<Last(args.written)>> ELSE << >>)
     IN /\ checkpoint' = <<next>>
        /\ args' = [args EXCEPT !.state = <<next>>]
  /\ pc' = "ckpt"
  /\ op' = "ck"
  /\ UNCHANGED <<call, procs, cfg, remote, input, parts, partTmp, ckptFile, ckptTmp, manFile, manTmp, g, hist>>

\* manifest.save has returned: checkpoint_mgr.delete(currency)
DeleteCheckpoint ==
  /\ pc = "finish" /\ op = "ret"
  /\ ckptFile' = Drop(ckptFile, Cur)
  /\ pc' = "done"
  /\ op' = "none"
  /\ hist' = [hist EXCEPT !.w = NoWrite]
  /\ UNCHANGED <<call, procs, cfg, remote, input, parts, partTmp, ckptTmp, manFile, manTmp, args,
                 manifest, checkpoint, g>>

\* An error handler that removes the checkpoint of the failed run.
AbortAndForget ==
  /\ pc \in {"fetch", "save", "ckpt", "finish"}
  /\ hist.crashes < MaxCrashes
  /\ pc' = "failed"
  /\ op' = "none"
  /\ args' = NoArgs
  /\ manifest' = EmptyFn
  /\ checkpoint' = << >>
  /\ g' = NoGen
  /\ hist' = [hist EXCEPT !.crashes = hist.crashes + 1,
                          !.midcrash = hist.midcrash \/ ~(pc = "ckpt" /\ op = "ret"),
                          !.ran = {}]
  /\ ckptFile' = Drop(ckptFile, Cur)
  /\ UNCHANGED <<call, procs, cfg, remote, input, parts, partTmp, ckptTmp, manFile, manTmp>>

\* An exception leaves the try block of backfill (a request that raised, a
\* write or rename that failed): "except Exception" logs it and raises it
\* again, the command ends.  The files stay as the failed step left them.
Abort ==
  /\ pc \in {"fetch", "save", "ckpt", "finish"}
  /\ hist.crashes < MaxCrashes
  /\ pc' = "failed"
  /\ op' = "none"
  /\ args' = NoArgs
  /\ manifest' = EmptyFn
  /\ checkpoint' = << >>
  /\ g' = NoGen
  /\ hist' = [hist EXCEPT !.crashes = hist.crashes + 1,
                          !.midcrash = hist.midcrash \/ ~(pc = "ckpt" /\ op = "ret"),
                          !.ran = {}]
  /\ UNCHANGED <<call, procs, cfg, remote, input, parts, partTmp, ckptFile, ckptTmp,
                 manFile, manTmp>>

\* ---------------------------------------------- a client of the stores
\* The managers are constructed: CheckpointManager.__init__,
\* ParquetStorage.__init__, ManifestManager.__init__
Construct ==
  /\ pc = "idle"
  /\ ckptTmp' = CleanupStaleTemps(ckptTmp)
  /\ partTmp' = StorageInit(partTmp)
  /\ manifest' = LoadManifest(manFile)
  /\ pc' = "client"
  /\ op' = "none"
  /\ UNCHANGED <<call, procs, cfg, remote, input, parts, ckptFile, manFile, manTmp, args, checkpoint, g, hist>>

ClientTrades == [id : 1..MaxId, ts : Timestamps]

ClientCandles == [ts : Timestamps, close : 1..MaxId]

Batches(S) == UNION {[1..n -> S] : n \in 0..MaxBatchLen}

ClientStates ==
  [currency : Currencies, last_timestamp_ms : 0..MaxTs, last_page : {0},
   trades_fetched : 0..1, files_written : {<< >>}]

ClientMayCall == pc = "client" /\ Idle /\ hist.calls < MaxCalls

Called == [hist EXCEPT !.calls = hist.calls + 1]

\* storage.save_trades(batch, c): an empty batch returns [] at once
ClientSaveTrades(c, batch) ==
  /\ ClientMayCall
  /\ IF batch = << >>
     THEN /\ op' = "ret"
          /\ args' = NoArgs
     ELSE /\ op' = "st"
          /\ args' = [fn |-> "save_trades", cur |-> c, batch |-> batch,
                      todo |-> SortedDates(batch), written |-> << >>, state |-> << >>]
  /\ hist' = Called
  /\ UNCHANGED <<call, procs, cfg, remote, input, parts, partTmp, ckptFile, ckptTmp, manFile, manTmp, pc,
                 manifest, checkpoint, g>>

\* storage.save_dvol(candles, c)
ClientSaveDvol(c, candles) ==
  /\ ClientMayCall
  /\ op' = "st"
  /\ args' = [fn |-> "save_dvol", cur |-> c, batch |-> candles,
              todo |-> <<DvolName>>, written |-> << >>, state |-> << >>]
  /\ hist' = Called
  /\ UNCHANGED <<call, procs, cfg, remote, input, parts, partTmp, ckptFile, ckptTmp, manFile, manTmp, pc,
                 manifest, checkpoint, g>>

\* checkpoint_mgr.save(state)
ClientCheckpointSave(state) ==
  /\ ClientMayCall
  /\ op' = "ck"
  /\ args' = [NoArgs EXCEPT !.fn = "save", !.state = <<state>>]
  /\ hist' = Called
  /\ UNCHANGED <<call, procs, cfg, remote, input, parts, partTmp, ckptFile, ckptTmp, manFile, manTmp, pc,
                 manifest, checkpoint, g>>

\* manifest.update_file(p) of a file that exists
ClientUpdateFile(p) ==
  /\ ClientMayCall
  /\ p \in DOMAIN parts
  /\ manifest' = UpdateFile(manifest, parts, p)
  /\ op' = "ret"
  /\ args' = NoArgs
  /\ hist' = Called
  /\ UNCHANGED <<call, procs, cfg, remote, input, parts, partTmp, ckptFile, ckptTmp, manFile, manTmp, pc,
                 checkpoint, g>>

\* manifest.save()
ClientManifestSave ==
  /\ ClientMayCall
  /\ op' = "ms"
  /\ args' = [NoArgs EXCEPT !.fn = "save"]
  /\ hist' = Called
  /\ UNCHANGED <<call, procs, cfg, remote, input, parts, partTmp, ckptFile, ckptTmp, manFile, manTmp, pc,
                 manifest, checkpoint, g>>

\* ------------------------------------------------------- specifications
EmptyDisk ==
  /\ parts = EmptyFn /\ partTmp = EmptyFn
  /\ ckptFile = EmptyFn /\ ckptTmp = EmptyFn
  /\ manFile = EmptyFn /\ manTmp = EmptyFn

NoInput == [cur |-> "", batch |-> << >>]

NoCall == [fn |-> ""]

NoProcs == EmptyFn

NoProcess ==
  /\ pc = "idle" /\ op = "none" /\ args = NoArgs
  /\ manifest = EmptyFn /\ checkpoint = << >> /\ g = NoGen /\ hist = NoHist

Configs ==
  [batch_size : 1..MaxBatchSize, flush_every_pages : 1..MaxFlush, max_pages : {MaxPages}]

\* the remote histories: trades 1..n in ascending order of timestamp, each
\* parseable (ok) or not
Remotes ==
  UNION {{[i \in 1..n |-> [id |-> i, ts |-> f[i][1], ok |-> f[i][2]]] :
            f \in {h \in [1..n -> Timestamps \X BOOLEAN] :
                     \A i \in 1..n : \A j \in 1..n : i < j => h[i][1] <= h[j][1]}} :
         n \in 1..MaxTrades}

\* Spec: one currency is backfilled; the process may crash and be started again
Init ==
  /\ cfg \in Configs
  /\ remote \in Remotes
  /\ input = NoInput
  /\ call = NoCall /\ procs = NoProcs
  /\ EmptyDisk
  /\ NoProcess

Next ==
  \/ \E resume \in BOOLEAN : BackfillStart(resume)
  \/ FetchNext
  \/ AfterSave
  \/ DeleteCheckpoint
  \/ StoreSteps
  \/ Crash

Spec == Init /\ [][Next]_vars

\* SpecRun: one backfill runs on a fresh store and is not interrupted
NextRun ==
  \/ \E resume \in BOOLEAN : BackfillStart(resume)
  \/ FetchNext
  \/ AfterSave
  \/ DeleteCheckpoint
  \/ StoreSteps

SpecRun == Init /\ [][NextRun]_vars

\* SpecAbort: one currency is backfilled; a run may end with an error at any
\* step and the command be run again
NextAbort ==
  \/ \E resume \in BOOLEAN : BackfillStart(resume)
  \/ FetchNext
  \/ AfterSave
  \/ DeleteCheckpoint
  \/ StoreSteps
  \/ Abort

SpecAbort == Init /\ [][NextAbort]_vars

\* SpecCeiling: the backfill of Spec under a page ceiling low enough to cut
\* the stream short (config.max_pages = 1, one trade per page)
InitCeiling ==
  /\ cfg \in [batch_size : {1}, flush_every_pages : 1..MaxFlush, max_pages : {1}]
  /\ remote \in Remotes
  /\ input = NoInput
  /\ call = NoCall /\ procs = NoProcs
  /\ EmptyDisk
  /\ NoProcess

SpecCeiling == InitCeiling /\ [][Next]_vars

\* SpecStores: a client calls the stores with any arguments; the process may
\* crash and the stores be constructed again
InitStores ==
  /\ cfg = [batch_size |-> 1, flush_every_pages |-> 1, max_pages |-> MaxPages]
  /\ remote = << >>
  /\ input = NoInput
  /\ call = NoCall /\ procs = NoProcs
  /\ EmptyDisk
  /\ NoProcess

NextStores ==
  \/ Construct
  \/ \E c \in Currencies : \E b \in Batches(ClientTrades) : ClientSaveTrades(c, b)
  \/ \E c \in Currencies : \E b \in Batches(ClientCandles) : ClientSaveDvol(c, b)
  \/ \E s \in ClientStates : ClientCheckpointSave(s)
  \/ \E p \in DOMAIN parts : ClientUpdateFile(p)
  \/ ClientManifestSave
  \/ StoreSteps
  \/ Crash

SpecStores == InitStores /\ [][NextStores]_vars

\* SpecSave: on an empty store a client saves one batch again and again
InitSave ==
  /\ cfg = [batch_size |-> 1, flush_every_pages |-> 1, max_pages |-> MaxPages]
  /\ remote = << >>
  /\ input \in [cur : Currencies, batch : Batches(ClientTrades)]
  /\ call = NoCall /\ procs = NoProcs
  /\ EmptyDisk
  /\ pc = "client" /\ op = "none" /\ args = NoArgs
  /\ manifest = EmptyFn /\ checkpoint = << >> /\ g = NoGen /\ hist = NoHist

SaveInput == ClientSaveTrades(input.cur, input.batch)

NextSave ==
  \/ SaveInput
  \/ StoreWriteOpen
  \/ StoreWriteFlush
  \/ StoreWriteRename

SpecSave == InitSave /\ [][NextSave]_vars

\* SpecSaves: on an empty store a client calls save_trades with any batches
\* and asks for the last trade timestamp; no call is interrupted.
\*   call.given   the save_trades calls made so far, [cur, batch] each
\*   call.before  the partition files as they were when the last one began
\*   call.asked   the currency of the last get_last_trade_timestamp call, ""
\*                when none was made since the last save_trades
\*   call.last    what it returned (Option)
\*   call.read    the partition files it read
InitSaves ==
  /\ cfg = [batch_size |-> 1, flush_every_pages |-> 1, max_pages |-> MaxPages]
  /\ remote = << >>
  /\ input = NoInput
  /\ procs = NoProcs
  /\ EmptyDisk
  /\ pc = "client" /\ op = "none" /\ args = NoArgs
  /\ manifest = EmptyFn /\ checkpoint = << >> /\ g = NoGen /\ hist = NoHist
  /\ call = [fn |-> "saves", given |-> << >>, before |-> EmptyFn,
             asked |-> "", last |-> << >>, read |-> {}]

\* storage.save_trades(batch, c) begins; an empty batch returns [] at once
SaveCall(c, batch) ==
  /\ call.fn = "saves" /\ Idle
  /\ Len(call.given) < MaxCalls
  /\ op' = IF batch = << >> THEN "ret" ELSE "st"
  /\ args' = [fn |-> "save_trades", cur |-> c, batch |-> batch,
              todo |-> SortedDates(batch), written |-> << >>, state |-> << >>]
  /\ call' = [call EXCEPT !.given = Append(call.given, [cur |-> c, batch |-> batch]),
                          !.before = parts,
                          !.asked = "", !.last = << >>, !.read = {}]
  /\ UNCHANGED <<procs, cfg, remote, input, parts, partTmp, ckptFile, ckptTmp, manFile,
                 manTmp, pc, manifest, checkpoint, g, hist>>

\* A scan of every partition file of the currency.
ScanAll(dir, c) ==
  LET days == TradeDays(dir, c)
      rows == LoadTrades(dir, c)
  IN IF rows = << >> THEN [last |-> << >>, read |-> {<<c, d>> : d \in days}]
     ELSE [last |-> <<CHOOSE m \in {rows[i].ts : i \in DOMAIN rows} :
                         \A i \in DOMAIN rows : rows[i].ts <= m>>,
           read |-> {<<c, d>> : d \in days}]

\* get_last_trade_timestamp: the maximum timestamp of the file that sorts
\* last among the partition files of the currency, None when there is none
\* or when it has no row
LastTradeTimestamp(dir, c) ==
  LET days == TradeDays(dir, c)
  IN IF days = {} THEN [last |-> << >>, read |-> {}]
     ELSE LET d == CHOOSE x \in days : \A y \in days : y <= x
              rows == dir[<<c, d>>].data
          IN IF rows = << >> THEN [last |-> << >>, read |-> {<<c, d>>}]
             ELSE [last |-> <<CHOOSE m \in {rows[i].ts : i \in DOMAIN rows} :
                                 \A i \in DOMAIN rows : rows[i].ts <= m>>,
                   read |-> {<<c, d>>}]

\* storage.get_last_trade_timestamp(c)
LastTimestampCall(c) ==
  /\ call.fn = "saves" /\ Idle
  /\ LET r == LastTradeTimestamp(parts, c)
     IN call' = [call EXCEPT !.asked = c, !.last = r.last, !.read = r.read]
  /\ UNCHANGED <<procs, cfg, remote, input, parts, partTmp, ckptFile, ckptTmp, manFile,
                 manTmp, pc, op, args, manifest, checkpoint, g, hist>>

NextSaves ==
  \/ \E c \in Currencies : \E b \in Batches(ClientTrades) : SaveCall(c, b)
  \/ \E c \in Currencies : LastTimestampCall(c)
  \/ StoreWriteOpen
  \/ StoreWriteFlush
  \/ StoreWriteRename

SpecSaves == InitSaves /\ [][NextSaves]_vars

\* SpecManifest: a client registers files in the manifest, saves it, loads it
\* in a new ManifestManager and verifies, while the bytes of the files may be
\* changed behind its back.  call.reg is the file each path had when the
\* manager at hand (or the snapshot it was loaded from) registered it,
\* call.pending the same for the snapshot saved last, call.fresh says that
\* the manager was loaded from disk and has registered nothing since.
ManifestPaths == {<<"BTC", 0>>, <<"ETH", 0>>}

FileContents ==
  {File(<< >>), File(<<[id |-> 1, ts |-> 1]>>), File(<<[id |-> 2, ts |-> 1]>>)}

InitManifest ==
  /\ cfg = [batch_size |-> 1, flush_every_pages |-> 1, max_pages |-> MaxPages]
  /\ remote = << >>
  /\ input = NoInput
  /\ procs = NoProcs
  /\ parts \in [ManifestPaths -> FileContents]
  /\ partTmp = EmptyFn /\ ckptFile = EmptyFn /\ ckptTmp = EmptyFn
  /\ manFile = EmptyFn /\ manTmp = EmptyFn
  /\ pc = "client" /\ op = "none" /\ args = NoArgs
  /\ manifest = EmptyFn /\ checkpoint = << >> /\ g = NoGen /\ hist = NoHist
  /\ call = [fn |-> "manifest", reg |-> EmptyFn, pending |-> EmptyFn, fresh |-> FALSE]

\* manifest.update_file(p)
RegisterFile(p) ==
  /\ Idle
  /\ manifest' = UpdateFile(manifest, parts, p)
  /\ call' = [call EXCEPT !.reg = Put(call.reg, p, parts[p]), !.fresh = FALSE]
  /\ op' = "ret"
  /\ UNCHANGED <<cfg, remote, input, procs, parts, partTmp, ckptFile, ckptTmp, manFile, manTmp,
                 pc, args, checkpoint, g, hist>>

\* manifest.save() begins
SaveManifest ==
  /\ Idle
  /\ op' = "ms"
  /\ call' = [call EXCEPT !.pending = call.reg]
  /\ UNCHANGED <<cfg, remote, input, procs, parts, partTmp, ckptFile, ckptTmp, manFile, manTmp,
                 pc, args, manifest, checkpoint, g, hist>>

\* a new ManifestManager(catalog_path) replaces the one at hand
ReloadManifest ==
  /\ Idle
  /\ manifest' = LoadManifest(manFile)
  /\ call' = [call EXCEPT !.reg = call.pending, !.fresh = TRUE]
  /\ op' = "ret"
  /\ UNCHANGED <<cfg, remote, input, procs, parts, partTmp, ckptFile, ckptTmp, manFile, manTmp,
                 pc, args, checkpoint, g, hist>>

\* the bytes of a file are changed by something else than the manifest
ChangeBytes(p, file) ==
  /\ Idle
  /\ file # parts[p]
  /\ parts' = Put(parts, p, file)
  /\ UNCHANGED <<cfg, remote, input, procs, partTmp, ckptFile, ckptTmp, manFile, manTmp,
                 pc, op, args, manifest, checkpoint, g, hist, call>>

NextManifest ==
  \/ \E p \in ManifestPaths : RegisterFile(p)
  \/ SaveManifest
  \/ ReloadManifest
  \/ \E p \in ManifestPaths : \E file \in FileContents : ChangeBytes(p, file)
  \/ ManifestSaveOpen
  \/ ManifestSaveFlush
  \/ ManifestSaveRename

SpecManifest == InitManifest /\ [][NextManifest]_vars

\* SpecVerify: a client registers files in the manifest, changes or deletes
\* files, calls verify_file on a path and calls verify_all.  call.out is the
\* outcome of the verify call made last:
\*   op            "verify_file" or "verify_all", "" before the first call
\*   path          the argument of verify_file
\*   listed        the path had a manifest entry when verify_file was called
\*   missing       the file did not exist when verify_file was called
\*   result        what verify_file returned
\*   raised        the exception that left the call, "" when none did
\*   passed, failed, failed_files   what verify_all returned
NoOutcome ==
  [op |-> "", path |-> <<"", 0>>, listed |-> FALSE, missing |-> FALSE, result |-> FALSE,
   raised |-> "", passed |-> 0, failed |-> 0, failed_files |-> << >>]

\* ManifestManager.verify_file: _compute_sha256 opens the file, which raises
\* FileNotFoundError when it does not exist
VerifyFileCall(m, dir, p) ==
  IF p \notin DOMAIN m THEN [result |-> FALSE, raised |-> ""]
  ELSE IF p \notin DOMAIN dir THEN [result |-> FALSE, raised |-> "FileNotFoundError"]
  ELSE [result |-> VerifyFile(m, dir, p), raised |-> ""]

\* the for loop of verify_all over the entries paths, acc = [passed, failed,
\* failed_files]
RECURSIVE VerifyEach(_, _, _, _)
VerifyEach(m, dir, paths, acc) ==
  IF paths = << >> THEN acc
  ELSE LET q == Head(paths)
           ok == q \in DOMAIN dir /\ VerifyFileCall(m, dir, q).result
       IN VerifyEach(m, dir, Tail(paths),
                     IF ok THEN [acc EXCEPT !.passed = acc.passed + 1]
                     ELSE [acc EXCEPT !.failed = acc.failed + 1,
                                      !.failed_files = Append(acc.failed_files, q)])

\* A verification that skips the entries whose file is missing.
VerifyPresent(m, dir) ==
  VerifyEach(m, dir, SortedPaths(DOMAIN m \cap DOMAIN dir),
             [passed |-> 0, failed |-> 0, failed_files |-> << >>])

\* ManifestManager.verify_all
VerifyAll(m, dir) ==
  VerifyEach(m, dir, SortedPaths(DOMAIN m),
             [passed |-> 0, failed |-> 0, failed_files |-> << >>])

InitVerify ==
  /\ cfg = [batch_size |-> 1, flush_every_pages |-> 1, max_pages |-> MaxPages]
  /\ remote = << >>
  /\ input = NoInput
  /\ procs = NoProcs
  /\ parts \in [ManifestPaths -> FileContents]
  /\ partTmp = EmptyFn /\ ckptFile = EmptyFn /\ ckptTmp = EmptyFn
  /\ manFile = EmptyFn /\ manTmp = EmptyFn
  /\ pc = "client" /\ op = "none" /\ args = NoArgs
  /\ manifest = EmptyFn /\ checkpoint = << >> /\ g = NoGen /\ hist = NoHist
  /\ call = [fn |-> "manifest", reg |-> EmptyFn, pending |-> EmptyFn, fresh |-> FALSE,
             out |-> NoOutcome]

\* file_path.unlink() by the client
DeleteFile(p) ==
  /\ Idle
  /\ parts' = Drop(parts, p)
  /\ UNCHANGED <<cfg, remote, input, procs, partTmp, ckptFile, ckptTmp, manFile, manTmp,
                 pc, op, args, manifest, checkpoint, g, hist, call>>

\* manifest.verify_file(p)
VerifyOne(p) ==
  /\ Idle
  /\ LET r == VerifyFileCall(manifest, parts, p)
     IN call' = [call EXCEPT !.out = [NoOutcome EXCEPT
                                        !.op = "verify_file", !.path = p,
                                        !.listed = p \in DOMAIN manifest,
                                        !.missing = p \notin DOMAIN parts,
                                        !.result = r.result, !.raised = r.raised]]
  /\ UNCHANGED <<cfg, remote, input, procs, parts, partTmp, ckptFile, ckptTmp, manFile,
                 manTmp, pc, op, args, manifest, checkpoint, g, hist>>

\* manifest.verify_all()
VerifyAllCall ==
  /\ Idle
  /\ LET r == VerifyAll(manifest, parts)
     IN call' = [call EXCEPT !.out = [NoOutcome EXCEPT
                                        !.op = "verify_all", !.passed = r.passed,
                                        !.failed = r.failed,
                                        !.failed_files = r.failed_files]]
  /\ UNCHANGED <<cfg, remote, input, procs, parts, partTmp, ckptFile, ckptTmp, manFile,
                 manTmp, pc, op, args, manifest, checkpoint, g, hist>>

NextVerify ==
  \/ \E p \in DOMAIN parts : RegisterFile(p)
  \/ \E p \in DOMAIN parts : \E file \in FileContents : ChangeBytes(p, file)
  \/ \E p \in DOMAIN parts : DeleteFile(p)
  \/ \E p \in ManifestPaths : VerifyOne(p)
  \/ VerifyAllCall

SpecVerify == InitVerify /\ [][NextVerify]_vars

\* SpecCheckpoint: a client calls save, load, exists and delete of one
\* CheckpointManager, in any order.  Here ckptFile maps the name of a
\* checkpoint file to its file, whose data is the JSON document save wrote,
\* and a CheckpointState has all its fields, the two datetimes included.
\*   call.map     currency -> Option of the state saved last and not deleted
\*   call.op      the operation called last, call.cur its currency
\*   call.state   what load returned (Option)
\*   call.flag    what exists or delete returned
\*   call.had     a checkpoint of call.cur existed when delete was called
FullStates ==
  [currency : Currencies, last_timestamp_ms : 0..1, last_page : {0}, trades_fetched : {0},
   started_at : 1..2, last_flush_at : {<< >>, <<2>>}, files_written : {<< >>, <<"f">>}]

\* One file name for every currency.
SharedPath(c) == "checkpoint.json"

\* CheckpointManager._get_checkpoint_path: f"{currency.lower()}_checkpoint.json"
CheckpointPath(c) == IF c = "BTC" THEN "btc_checkpoint.json" ELSE "eth_checkpoint.json"

\* datetime.isoformat() as written by model_dump(mode="json"), and
\* datetime.fromisoformat
IsoFormat(dt) == [iso |-> dt]

FromIsoFormat(str) == str.iso

\* state.model_dump(mode="json"): datetimes become ISO strings, None null
ModelDump(st) ==
  [currency |-> st.currency, last_timestamp_ms |-> st.last_timestamp_ms,
   last_page |-> st.last_page, trades_fetched |-> st.trades_fetched,
   started_at |-> IsoFormat(st.started_at),
   last_flush_at |-> IF st.last_flush_at = << >> THEN [null |-> TRUE]
                     ELSE IsoFormat(st.last_flush_at[1]),
   files_written |-> st.files_written]

\* load of a document that save wrote: the two ISO strings are parsed, then
\* CheckpointState(**data)
ParseState(data) ==
  [currency |-> data.currency, last_timestamp_ms |-> data.last_timestamp_ms,
   last_page |-> data.last_page, trades_fetched |-> data.trades_fetched,
   started_at |-> FromIsoFormat(data.started_at),
   last_flush_at |-> IF "iso" \in DOMAIN data.last_flush_at
                     THEN <<FromIsoFormat(data.last_flush_at)>> ELSE << >>,
   files_written |-> data.files_written]

InitCheckpoint ==
  /\ cfg = [batch_size |-> 1, flush_every_pages |-> 1, max_pages |-> MaxPages]
  /\ remote = << >>
  /\ input = NoInput
  /\ EmptyDisk
  /\ NoProcess
  /\ procs = NoProcs
  /\ call = [fn |-> "checkpoint", map |-> [c \in Currencies |-> << >>], op |-> "",
             cur |-> "", state |-> << >>, flag |-> FALSE, had |-> FALSE]

\* checkpoint_mgr.save(st): write_text of the temp file, then rename
CheckpointSave(st) ==
  /\ call.fn = "checkpoint"
  /\ ckptFile' = Put(ckptFile, CheckpointPath(st.currency), File(ModelDump(st)))
  /\ call' = [call EXCEPT !.map = [call.map EXCEPT ![st.currency] = <<st>>],
                          !.op = "save", !.cur = st.currency,
                          !.state = << >>, !.flag = FALSE, !.had = FALSE]
  /\ UNCHANGED <<procs, cfg, remote, input, parts, partTmp, ckptTmp, manFile, manTmp,
                 pc, op, args, manifest, checkpoint, g, hist>>

\* checkpoint_mgr.load(c)
CheckpointLoadCall(c) ==
  /\ call.fn = "checkpoint"
  /\ call' = [call EXCEPT !.op = "load", !.cur = c,
                          !.state = IF CheckpointPath(c) \in DOMAIN ckptFile
                                    THEN <<ParseState(ckptFile[CheckpointPath(c)].data)>>
                                    ELSE << >>,
                          !.flag = FALSE, !.had = FALSE]
  /\ UNCHANGED <<procs, cfg, remote, input, parts, partTmp, ckptFile, ckptTmp, manFile,
                 manTmp, pc, op, args, manifest, checkpoint, g, hist>>

\* checkpoint_mgr.exists(c)
CheckpointExistsCall(c) ==
  /\ call.fn = "checkpoint"
  /\ call' = [call EXCEPT !.op = "exists", !.cur = c, !.state = << >>,
                          !.flag = CheckpointPath(c) \in DOMAIN ckptFile, !.had = FALSE]
  /\ UNCHANGED <<procs, cfg, remote, input, parts, partTmp, ckptFile, ckptTmp, manFile,
                 manTmp, pc, op, args, manifest, checkpoint, g, hist>>

\* checkpoint_mgr.delete(c)
CheckpointDelete(c) ==
  /\ call.fn = "checkpoint"
  /\ ckptFile' = Drop(ckptFile, CheckpointPath(c))
  /\ call' = [call EXCEPT !.map = [call.map EXCEPT ![c] = << >>],
                          !.op = "delete", !.cur = c, !.state = << >>,
                          !.flag = CheckpointPath(c) \in DOMAIN ckptFile,
                          !.had = call.map[c] # << >>]
  /\ UNCHANGED <<procs, cfg, remote, input, parts, partTmp, ckptTmp, manFile, manTmp,
                 pc, op, args, manifest, checkpoint, g, hist>>

NextCheckpoint ==
  \/ \E st \in FullStates : CheckpointSave(st)
  \/ \E c \in Currencies : CheckpointLoadCall(c)
  \/ \E c \in Currencies : CheckpointExistsCall(c)
  \/ \E c \in Currencies : CheckpointDelete(c)

SpecCheckpoint == InitCheckpoint /\ [][NextCheckpoint]_vars

\* SpecTwo: two backfills, one per currency, run at once on one catalog root
\* and one checkpoint directory.  procs[c] is the process of currency c:
\*   pc          "idle", "run" (in the for loop), "ckpt_rename" (inside
\*               checkpoint_mgr.save, between write_text and rename),
\*               "finish" (before manifest.save), "man_rename" (inside
\*               manifest.save, between write_text and rename), "done",
\*               "failed" (an exception left backfill)
\*   manifest    its ManifestManager._manifest
\*   checkpoint  its CheckpointState
\*   todo        the batches its fetch will still yield
\*   raised      the exception that left backfill, "" when none did
\* The partition files of a process are its own, so save_trades and the
\* manifest.update_file calls after it are one step; the steps on the shared
\* checkpoint directory and on manifest.json are taken one by one.
TwoBatches ==
  {<<<<[id |-> 1, ts |-> 1]>>>>,
   <<<<[id |-> 1, ts |-> 1]>>, <<[id |-> 2, ts |-> 2], [id |-> 3, ts |-> 2]>>>>}

IdleProc(todo) ==
  [pc |-> "idle", manifest |-> EmptyFn, checkpoint |-> << >>, todo |-> todo, raised |-> ""]

InitTwo ==
  /\ cfg = [batch_size |-> 1, flush_every_pages |-> 1, max_pages |-> MaxPages]
  /\ remote = << >>
  /\ input = NoInput
  /\ call = NoCall
  /\ EmptyDisk
  /\ NoProcess
  /\ procs \in [Currencies -> {IdleProc(todo) : todo \in TwoBatches}]

\* the directories save_trades(batch, c) may leave, partition by partition
RECURSIVE SavedDirs(_, _, _, _)
SavedDirs(dir, c, batch, days) ==
  IF days = << >> THEN {dir}
  ELSE UNION {SavedDirs(Put(dir, <<c, Head(days)>>, File(table)), c, batch, Tail(days)) :
                table \in TradeTables(dir, <<c, Head(days)>>, DateTrades(batch, Head(days)))}

\* backfill of c up to the for loop: CheckpointManager (which removes every
\* *.tmp of the checkpoint directory), ParquetStorage, ManifestManager
TwoStart(c) ==
  /\ procs[c].pc = "idle"
  /\ ckptTmp' = CleanupStaleTemps(ckptTmp)
  /\ partTmp' = StorageInit(partTmp)
  /\ procs' = [procs EXCEPT ![c].pc = "run",
                            ![c].manifest = LoadManifest(manFile),
                            ![c].checkpoint = <<CreateInitial(c)>>]
  /\ UNCHANGED <<cfg, remote, input, call, parts, ckptFile, manFile, manTmp,
                 pc, op, args, manifest, checkpoint, g, hist>>

\* one pass of the for loop up to the write_text of checkpoint_mgr.save; when
\* the fetch is exhausted the loop is left
TwoBatch(c) ==
  /\ procs[c].pc = "run"
  /\ IF procs[c].todo = << >>
     THEN /\ procs' = [procs EXCEPT ![c].pc = "finish"]
          /\ UNCHANGED <<parts, ckptTmp>>
     ELSE LET batch == Head(procs[c].todo)
              days == SortedDates(batch)
              written == [i \in DOMAIN days |-> <<c, days[i]>>]
          IN \E dir \in SavedDirs(parts, c, batch, days) :
               LET next == UpdateProgress(procs[c].checkpoint[1], Last(batch).ts,
                                          procs[c].checkpoint[1].last_page
                                            + cfg.flush_every_pages,
                                          Len(batch), <<Last(written)>>)
               IN /\ parts' = dir
                  /\ ckptTmp' = Put(ckptTmp, c, File(next))
                  /\ procs' = [procs EXCEPT
                                 ![c].pc = "ckpt_rename",
                                 ![c].manifest = UpdateFiles(procs[c].manifest, dir, written),
                                 ![c].checkpoint = <<next>>,
                                 ![c].todo = Tail(procs[c].todo)]
  /\ UNCHANGED <<cfg, remote, input, call, partTmp, ckptFile, manFile, manTmp,
                 pc, op, args, manifest, checkpoint, g, hist>>

\* tmp_path.rename(file_path) of checkpoint_mgr.save: FileNotFoundError when
\* the temp file is gone
TwoCheckpointRename(c) ==
  /\ procs[c].pc = "ckpt_rename"
  /\ IF c \in DOMAIN ckptTmp
     THEN /\ ckptFile' = Put(ckptFile, c, ckptTmp[c])
          /\ ckptTmp' = Drop(ckptTmp, c)
          /\ procs' = [procs EXCEPT ![c].pc = "run"]
     ELSE /\ procs' = [procs EXCEPT ![c].pc = "failed", ![c].raised = "FileNotFoundError"]
          /\ UNCHANGED <<ckptFile, ckptTmp>>
  /\ UNCHANGED <<cfg, remote, input, call, parts, partTmp, manFile, manTmp,
                 pc, op, args, manifest, checkpoint, g, hist>>

\* manifest.save() up to tmp_path.write_text
TwoManifestWrite(c) ==
  /\ procs[c].pc = "finish"
  /\ manTmp' = Put(manTmp, ManifestPath, File(ManifestDoc(procs[c].manifest)))
  /\ procs' = [procs EXCEPT ![c].pc = "man_rename"]
  /\ UNCHANGED <<cfg, remote, input, call, parts, partTmp, ckptFile, ckptTmp, manFile,
                 pc, op, args, manifest, checkpoint, g, hist>>

\* tmp_path.rename(manifest_path) of manifest.save, then
\* checkpoint_mgr.delete(c); FileNotFoundError when the temp file is gone
TwoManifestRename(c) ==
  /\ procs[c].pc = "man_rename"
  /\ IF ManifestPath \in DOMAIN manTmp
     THEN /\ manFile' = Put(manFile, ManifestPath, manTmp[ManifestPath])
          /\ manTmp' = Drop(manTmp, ManifestPath)
          /\ ckptFile' = Drop(ckptFile, c)
          /\ procs' = [procs EXCEPT ![c].pc = "done"]
     ELSE /\ procs' = [procs EXCEPT ![c].pc = "failed", ![c].raised = "FileNotFoundError"]
          /\ UNCHANGED <<manFile, manTmp, ckptFile>>
  /\ UNCHANGED <<cfg, remote, input, call, parts, partTmp, ckptTmp,
                 pc, op, args, manifest, checkpoint, g, hist>>

NextTwo ==
  \E c \in Currencies :
    \/ TwoStart(c)
    \/ TwoBatch(c)
    \/ TwoCheckpointRename(c)
    \/ TwoManifestWrite(c)
    \/ TwoManifestRename(c)

SpecTwo == InitTwo /\ [][NextTwo]_vars

\* SpecFetch: one fetch_trades_streaming call is run to exhaustion
InitFetch ==
  /\ cfg \in Configs
  /\ remote \in Remotes
  /\ input = NoInput
  /\ call = NoCall /\ procs = NoProcs
  /\ EmptyDisk
  /\ pc = "fetch" /\ op = "none" /\ args = NoArgs
  /\ manifest = EmptyFn /\ checkpoint = << >> /\ hist = NoHist
  /\ g = GenStart(<< >>)

\* next(generator), one request at a time; a yielded batch is recorded
FetchStep ==
  /\ g.at # "end"
  /\ g' = GenStep(g)
  /\ hist' = [hist EXCEPT !.out = IF Yields(g') THEN hist.out \o g'.batch ELSE hist.out]
  /\ UNCHANGED <<call, procs, cfg, remote, input, parts, partTmp, ckptFile, ckptTmp, manFile, manTmp,
                 pc, op, args, manifest, checkpoint>>

NextFetch == FetchStep

SpecFetch == InitFetch /\ [][NextFetch]_vars

\* SpecRequest: one _request_with_backoff call, one step per pass of its
\* for loop.  What the server answers to each request is drawn freely.
\*   call.attempt    the loop variable of the next pass
\*   call.responses  what each client.get met, in order
\*   call.log        what the call did: "throttle" (the sleep of _rate_limit),
\*                   "request" (client.get), "sleep" with its wait
\*   call.result     Option of the returned JSON
\*   call.raised     the exception that left the call, "" when none did
\*   call.done       the call has returned or raised
Statuses == {200, 404, 429, 500, 503}

\* what client.get meets: a transport error (httpx.RequestError) or a
\* response with a status and a JSON body
Responses ==
  {[error |-> "RequestError", status |-> 0, body |-> 0]}
    \cup {[error |-> "", status |-> st, body |-> IF st = 200 THEN b ELSE 0] :
            st \in Statuses, b \in 1..2}

\* response.raise_for_status() raises HTTPStatusError
IsStatusError(resp) == resp.error = "" /\ resp.status >= 400

RECURSIVE Pow(_, _)
Pow(b, n) == IF n = 0 THEN 1 ELSE b * Pow(b, n - 1)

TreatAsServerError(resp, attempt) == <<Pow(cfg.backoff_base, attempt)>>

\* the wait before the next pass, << >> when the error is raised again
BackoffWait(resp, attempt) ==
  IF resp.error = "RequestError" THEN <<Pow(cfg.backoff_base, attempt)>>
  ELSE IF resp.status = 429 THEN <<Pow(cfg.backoff_base, attempt + 1)>>
  ELSE IF resp.status >= 500 THEN <<Pow(cfg.backoff_base, attempt)>>
  ELSE << >>

OneMorePass(attempt) == attempt <= cfg.max_retries

\* for attempt in range(max_retries)
InLoop(attempt) == attempt < cfg.max_retries

InitRequest ==
  /\ cfg \in [max_retries : 1..MaxRetries, backoff_base : 1..2]
  /\ remote = << >>
  /\ input = NoInput
  /\ EmptyDisk
  /\ NoProcess
  /\ procs = NoProcs
  /\ call = [fn |-> "request", attempt |-> 0, responses |-> << >>, log |-> << >>,
             result |-> << >>, raised |-> "", done |-> FALSE]

\* one pass of the loop: _rate_limit, client.get, raise_for_status, and
\* either return response.json() or the except clause that applies
RequestAttempt ==
  /\ call.fn = "request" /\ ~call.done
  /\ InLoop(call.attempt)
  /\ \E throttle \in BOOLEAN, resp \in Responses :
       LET before == IF throttle THEN <<[ev |-> "throttle", wait |-> 0]>> ELSE << >>
           sent == call.log \o before \o <<[ev |-> "request", wait |-> 0]>>
           seen == Append(call.responses, resp)
       IN IF resp.error = "" /\ ~IsStatusError(resp)
          THEN call' = [call EXCEPT !.responses = seen, !.log = sent,
                                    !.result = <<resp.body>>, !.done = TRUE]
          ELSE LET wait == BackoffWait(resp, call.attempt)
               IN IF wait = << >>
                  THEN call' = [call EXCEPT !.responses = seen, !.log = sent,
                                            !.raised = "HTTPStatusError", !.done = TRUE]
                  ELSE call' = [call EXCEPT
                                  !.responses = seen,
                                  !.log = Append(sent, [ev |-> "sleep", wait |-> wait[1]]),
                                  !.attempt = call.attempt + 1]
  /\ UNCHANGED <<procs, cfg, remote, input, parts, partTmp, ckptFile, ckptTmp, manFile,
                 manTmp, pc, op, args, manifest, checkpoint, g, hist>>

\* the loop is exhausted: raise RuntimeError
RequestExhausted ==
  /\ call.fn = "request" /\ ~call.done
  /\ ~InLoop(call.attempt)
  /\ call' = [call EXCEPT !.raised = "RuntimeError", !.done = TRUE]
  /\ UNCHANGED <<procs, cfg, remote, input, parts, partTmp, ckptFile, ckptTmp, manFile,
                 manTmp, pc, op, args, manifest, checkpoint, g, hist>>

NextRequest == RequestAttempt \/ RequestExhausted

SpecRequest == InitRequest /\ [][NextRequest]_vars

\* SpecParse: the parse loop of fetch_trades_streaming over one page of raw
\* records, one step per record.  A raw record gives, for each key that
\* _parse_trade reads, what the JSON holds there:
\*   instrument_name  "ok", "missing", "null", "number", "no_match" (a string
\*                    the pattern rejects), "bad_expiry" (the pattern accepts
\*                    it, strptime does not)
\*   iv               "ok", "null", "string", "negative", "too_large"
\*   timestamp        "ok", "missing", "string", "year_out_of_range" (beyond
\*                    year 9999), "overflow" (beyond the platform time_t)
\*   price, amount    "ok", "missing", "string", "negative"
\*   direction        "ok", "missing", "unknown"
\*   call.page   the records of the page, call.i the next one to parse
\*   call.batch  the trade ids appended to the batch so far
\*   call.raised the exception that left the generator, "" when none did
GoodRecord ==
  [instrument_name |-> "ok", iv |-> "ok", timestamp |-> "ok", price |-> "ok",
   amount |-> "ok", direction |-> "ok"]

FieldStates ==
  [instrument_name |-> {"missing", "null", "number", "no_match", "bad_expiry"},
   iv |-> {"null", "string", "negative", "too_large"},
   timestamp |-> {"missing", "string", "year_out_of_range", "overflow"},
   price |-> {"missing", "string", "negative"},
   amount |-> {"missing", "string", "negative"},
   direction |-> {"missing", "unknown"}]

\* the well-formed record and every record that differs from it in one key
RawRecords ==
  {GoodRecord} \cup
    UNION {{[GoodRecord EXCEPT ![k] = v] : v \in FieldStates[k]} : k \in DOMAIN FieldStates}

\* _parse_trade: [out |-> "trade"], [out |-> "none"] or the exception it
\* lets through.  The instrument name and iv are read before the try block,
\* which catches KeyError, ValueError and TypeError only.
ParseRecord(raw) ==
  IF raw.instrument_name \in {"null", "number"}
    THEN [out |-> "raise", raised |-> "TypeError"]
  ELSE IF raw.instrument_name \in {"missing", "no_match", "bad_expiry"}
    THEN [out |-> "none", raised |-> ""]
  ELSE IF raw.iv = "string"
    THEN [out |-> "raise", raised |-> "TypeError"]
  ELSE IF raw.timestamp = "overflow"
    THEN [out |-> "raise", raised |-> "OverflowError"]
  ELSE IF \/ raw.timestamp \in {"missing", "string", "year_out_of_range"}
          \/ raw.price # "ok"
          \/ raw.iv = "too_large"
          \/ raw.amount # "ok"
          \/ raw.direction # "ok"
    THEN [out |-> "none", raised |-> ""]
  ELSE [out |-> "trade", raised |-> ""]

InitParse ==
  /\ cfg = [batch_size |-> MaxPageLen, flush_every_pages |-> 1, max_pages |-> MaxPages]
  /\ remote = << >>
  /\ input = NoInput
  /\ EmptyDisk
  /\ NoProcess
  /\ procs = NoProcs
  /\ \E n \in 1..MaxPageLen :
       \E page \in [1..n -> RawRecords] :
         call = [fn |-> "parse", page |-> page, i |-> 1, batch |-> << >>, raised |-> ""]

\* one pass of `for trade_data in trades_data`
ParseNext ==
  /\ call.fn = "parse" /\ call.raised = ""
  /\ call.i <= Len(call.page)
  /\ LET r == ParseRecord(call.page[call.i])
     IN call' = [call EXCEPT
                   !.i = call.i + 1,
                   !.batch = IF r.out = "trade" THEN Append(call.batch, call.i)
                             ELSE call.batch,
                   !.raised = r.raised]
  /\ UNCHANGED <<procs, cfg, remote, input, parts, partTmp, ckptFile, ckptTmp, manFile,
                 manTmp, pc, op, args, manifest, checkpoint, g, hist>>

NextParse == ParseNext

SpecParse == InitParse /\ [][NextParse]_vars

\* SpecLoad: CheckpointManager.load over every content of the checkpoint
\* file.  A content is its text taken as JSON:
\*   kind "empty", "truncated", "garbage"       json.loads raises JSONDecodeError
\*   kind "array", "string", "number", "null"   JSON whose top level is no object
\*   kind "object"   fields[f] tells whether key f is "absent", "good" or
\*                   "bad" (a value of a type the field does not take, for
\*                   the two datetimes also a string that is no ISO date)
\*   call.content  Option of the content, << >> for a missing file
\*   call.result   Option of the returned CheckpointState
\*   call.raised   the exception that left load, "" when none did
CheckpointFields ==
  {"currency", "last_timestamp_ms", "last_page", "trades_fetched", "started_at",
   "last_flush_at", "files_written"}

RequiredFields == {"currency", "started_at"}

NoFields == [f \in CheckpointFields |-> "absent"]

CheckpointContents ==
  {[kind |-> k, fields |-> NoFields] :
     k \in {"empty", "truncated", "garbage", "array", "string", "number", "null"}}
    \cup {[kind |-> "object", fields |-> fs] :
            fs \in [CheckpointFields -> {"absent", "good", "bad"}]}

\* CheckpointState(**data): the keys given, the defaults for the others
StateOf(fields) == [f \in CheckpointFields |-> IF fields[f] = "good" THEN "given" ELSE "default"]

\* CheckpointManager.load on a content: data.get is outside what the except
\* clause (JSONDecodeError, ValueError) catches when data is no dict
CheckpointLoad(content) ==
  IF content = << >> THEN [result |-> << >>, raised |-> ""]
  ELSE LET doc == content[1]
       IN IF doc.kind \in {"empty", "truncated", "garbage"}
            THEN [result |-> << >>, raised |-> ""]
          ELSE IF doc.kind # "object"
            THEN [result |-> << >>, raised |-> "AttributeError"]
          ELSE IF \/ \E f \in CheckpointFields : doc.fields[f] = "bad"
                  \/ \E f \in RequiredFields : doc.fields[f] = "absent"
            THEN [result |-> << >>, raised |-> ""]
          ELSE [result |-> <<StateOf(doc.fields)>>, raised |-> ""]

InitLoad ==
  /\ cfg = [batch_size |-> 1, flush_every_pages |-> 1, max_pages |-> MaxPages]
  /\ remote = << >>
  /\ input = NoInput
  /\ EmptyDisk
  /\ NoProcess
  /\ procs = NoProcs
  /\ \E content \in {<< >>} \cup {<<doc>> : doc \in CheckpointContents} :
       call = [fn |-> "load", content |-> content, result |-> << >>, raised |-> "",
               done |-> FALSE]

LoadCall ==
  /\ call.fn = "load" /\ ~call.done
  /\ LET r == CheckpointLoad(call.content)
     IN call' = [call EXCEPT !.result = r.result, !.raised = r.raised, !.done = TRUE]
  /\ UNCHANGED <<procs, cfg, remote, input, parts, partTmp, ckptFile, ckptTmp, manFile,
                 manTmp, pc, op, args, manifest, checkpoint, g, hist>>

NextLoad == LoadCall

SpecLoad == InitLoad /\ [][NextLoad]_vars

\* SpecConstruct: ManifestManager(catalog_path) over a manifest.json of any
\* content: text that is no JSON, JSON whose top level is no object, or an
\* object whose "files" members may lack keys.
\*   call.doc      the document in manifest.json
\*   call.entries  _manifest after the constructor
\*   call.raised   the exception that left the constructor, "" when none did
FileMembers ==
  {[ToDict(p, Entry(File(<< >>))) EXCEPT !.keys = ks] :
     p \in ManifestPaths, ks \in SUBSET EntryKeys}

\* the keys of a JSON object are distinct, so are the paths of "files"
ManifestContents ==
  {[kind |-> k, files |-> << >>] : k \in {"text", "array"}}
    \cup {[kind |-> "object", files |-> fs] :
            fs \in {f \in UNION {[1..n -> FileMembers] : n \in 0..MaxFiles} :
                      \A i, j \in DOMAIN f : f[i].path = f[j].path => i = j}}

InitConstruct ==
  /\ cfg = [batch_size |-> 1, flush_every_pages |-> 1, max_pages |-> MaxPages]
  /\ remote = << >>
  /\ input = NoInput
  /\ EmptyDisk
  /\ NoProcess
  /\ procs = NoProcs
  /\ \E doc \in ManifestContents :
       call = [fn |-> "construct", doc |-> doc, entries |-> EmptyFn, raised |-> "",
               done |-> FALSE]

\* ManifestManager.__init__ when manifest.json exists
ConstructManifest ==
  /\ call.fn = "construct" /\ ~call.done
  /\ LET r == ManifestLoad(call.doc)
     IN call' = [call EXCEPT !.entries = r.entries, !.raised = r.raised, !.done = TRUE]
  /\ UNCHANGED <<procs, cfg, remote, input, parts, partTmp, ckptFile, ckptTmp, manFile,
                 manTmp, pc, op, args, manifest, checkpoint, g, hist>>

NextConstruct == ConstructManifest

SpecConstruct == InitConstruct /\ [][NextConstruct]_vars

\* The volatility index: fetch_dvol turns the rows of one response into
\* candles.  A row is [timestamp, open, high, low, close]; a cell is 0..MaxIv
\* (0 is the value Field(gt=0) rejects) and a row may lack its last cell.
\*   call.data     the rows of the response, call.i the next one to read
\*   call.candles  the candles appended so far
DvolRows ==
  {<<1, o, h, l, c>> : o \in 0..MaxIv, h \in 0..MaxIv, l \in 0..MaxIv, c \in 0..MaxIv}
    \cup {<<1, o, h, l>> : o \in 0..MaxIv, h \in 0..MaxIv, l \in 0..MaxIv}

\* the fields of DVOLCandle in the order the class declares them, which is
\* the order in which they are validated
CandleFields == <<"timestamp", "open", "high", "low", "close">>

\* DVOLCandle.high_gte_low(v, info): TRUE when the validator returns v,
\* FALSE when it raises.  data is info.data: the fields validated so far.
HighGteLow(v, data) == ~("low" \in DOMAIN data /\ v < data["low"])

\* validation of the keyword arguments kw from field k on: a field whose
\* constraint (gt=0) holds runs its validator, joins data when that passes,
\* and is an error otherwise.  The result is the set of fields in error.
RECURSIVE ValidateFields(_, _, _)
ValidateFields(kw, k, data) ==
  IF k > Len(CandleFields) THEN {}
  ELSE LET f == CandleFields[k]
           ok == \/ f = "timestamp"
                 \/ /\ kw[f] > 0
                    /\ f = "high" => HighGteLow(kw[f], data)
       IN IF ok THEN ValidateFields(kw, k + 1, Put(data, f, kw[f]))
          ELSE {f} \cup ValidateFields(kw, k + 1, data)

\* DVOLCandle(**kw): Option of the candle, none when ValidationError is raised
DVOLCandle(kw) ==
  IF ValidateFields(kw, 1, EmptyFn) = {} THEN <<kw>> ELSE << >>

InitDvol ==
  /\ cfg = [batch_size |-> 1, flush_every_pages |-> 1, max_pages |-> MaxPages]
  /\ remote = << >>
  /\ input = NoInput
  /\ EmptyDisk
  /\ NoProcess
  /\ procs = NoProcs
  /\ \E n \in 1..MaxPageLen :
       \E data \in [1..n -> DvolRows] :
         call = [fn |-> "dvol", data |-> data, i |-> 1, candles |-> << >>]

\* one pass of `for row in data` of fetch_dvol: IndexError (a short row) and
\* ValueError (which ValidationError is) are caught and the row is skipped
FetchDvolRow ==
  /\ call.fn = "dvol"
  /\ call.i <= Len(call.data)
  /\ LET row == call.data[call.i]
         candle == IF Len(row) < 5 THEN << >>
                   ELSE DVOLCandle([timestamp |-> row[1], open |-> row[2],
                                    high |-> row[3], low |-> row[4],
                                    close |-> row[5]])
     IN call' = [call EXCEPT !.i = call.i + 1,
                             !.candles = call.candles \o candle]
  /\ UNCHANGED <<procs, cfg, remote, input, parts, partTmp, ckptFile, ckptTmp, manFile,
                 manTmp, pc, op, args, manifest, checkpoint, g, hist>>

NextDvol == FetchDvolRow

SpecDvol == InitDvol /\ [][NextDvol]_vars

\* The implied volatility of a raw record.  _parse_trade reads trade_data's
\* "iv" (a percentage) and hands OptionTrade the decimal fraction, a rational
\* kept here as numerator n over denominator d.
\*   call.raw    the record: iv.kind is "missing", "null" or "number" (then
\*               iv.v is the number), rest the state of the other keys ("ok"
\*               or "bad": one of them makes OptionTrade raise)
\*   call.out    Option of the trade _parse_trade returned, once call.done
Percent == 100
IvLimit == 5

RawIvs ==
  {[kind |-> k, v |-> 0] : k \in {"missing", "null"}}
    \cup {[kind |-> "number", v |-> n] : n \in -1..MaxRawIv}

\* trade_data.get("iv"): Option of the number
GetIv(raw) == IF raw.iv.kind \in {"missing", "null"} THEN << >> ELSE <<raw.iv.v>>

ScaleOnly(iv) == IF iv # << >> /\ iv[1] > 0 THEN <<[n |-> iv[1], d |-> 1]>> ELSE << >>

\* iv / 100.0 if iv and iv > 0 else None
IvDecimal(iv) ==
  IF iv # << >> /\ iv[1] # 0 /\ iv[1] > 0 THEN <<[n |-> iv[1], d |-> Percent]>> ELSE << >>

\* Field(default=None, ge=0, le=5.0) of OptionTrade.iv
IvFieldOk(iv) == iv = << >> \/ (iv[1].n >= 0 /\ iv[1].n <= IvLimit * iv[1].d)

\* _parse_trade for a record whose instrument name parses
ParseIv(raw) ==
  LET iv_decimal == IvDecimal(GetIv(raw))
  IN IF raw.rest = "ok" /\ IvFieldOk(iv_decimal) THEN <<[iv |-> iv_decimal]>> ELSE << >>

InitIv ==
  /\ cfg = [batch_size |-> 1, flush_every_pages |-> 1, max_pages |-> MaxPages]
  /\ remote = << >>
  /\ input = NoInput
  /\ EmptyDisk
  /\ NoProcess
  /\ procs = NoProcs
  /\ \E iv \in RawIvs, rest \in {"ok", "bad"} :
       call = [fn |-> "iv", raw |-> [iv |-> iv, rest |-> rest], done |-> FALSE,
               out |-> << >>]

ParseTradeCall ==
  /\ call.fn = "iv" /\ ~call.done
  /\ call' = [call EXCEPT !.done = TRUE, !.out = ParseIv(call.raw)]
  /\ UNCHANGED <<procs, cfg, remote, input, parts, partTmp, ckptFile, ckptTmp, manFile,
                 manTmp, pc, op, args, manifest, checkpoint, g, hist>>

NextIv == ParseTradeCall

SpecIv == InitIv /\ [][NextIv]_vars

\* SpecStream: one fetch_trades_streaming call against a server that answers
\* each request as it likes: a page of 0..MaxPageLen records, each parseable
\* or not, and any has_more.  The records of request number k carry the
\* timestamp k and fresh identifiers.
\*   call.requests  the requests sent so far
\*   call.fetched   the parsed trades of the pages fetched so far, in order
\*   call.batches   the batches yielded so far
ServerPages(k) ==
  {[trades |-> [i \in 1..n |-> [id |-> MaxPageLen * k + i, ts |-> k, ok |-> f[i]]],
    has_more |-> h] :
     n \in 0..MaxPageLen, f \in [1..MaxPageLen -> BOOLEAN], h \in BOOLEAN}

InitStream ==
  /\ cfg \in [batch_size : {MaxPageLen}, flush_every_pages : 1..MaxFlush,
              max_pages : 1..MaxCeiling]
  /\ remote = << >>
  /\ input = NoInput
  /\ procs = NoProcs
  /\ EmptyDisk
  /\ pc = "fetch" /\ op = "none" /\ args = NoArgs
  /\ manifest = EmptyFn /\ checkpoint = << >> /\ hist = NoHist
  /\ g = GenStart(<< >>)
  /\ call = [fn |-> "stream", requests |-> 0, fetched |-> << >>, batches |-> << >>]

\* next(generator): the generator runs up to its next yield or request
StreamNext ==
  /\ call.fn = "stream"
  /\ g.at # "end"
  /\ \E r \in ServerPages(call.requests + 1) :
       /\ g' = GenStepOn(g, r)
       /\ call' = [call EXCEPT
                     !.requests = IF SendsRequest(g) THEN call.requests + 1
                                  ELSE call.requests,
                     !.fetched = IF SendsRequest(g) THEN call.fetched \o ParseAll(r.trades)
                                 ELSE call.fetched,
                     !.batches = IF Yields(g') THEN Append(call.batches, g'.batch)
                                 ELSE call.batches]
  /\ UNCHANGED <<procs, cfg, remote, input, parts, partTmp, ckptFile, ckptTmp, manFile,
                 manTmp, pc, op, args, manifest, checkpoint, hist>>

NextStream == StreamNext

SpecStream == InitStream /\ [][NextStream]_vars

\* SpecRate: the requests of one fetcher in time.  call.mono is the time that
\* really passes (what time.sleep waits on), call.wall what time.time() reads:
\* the two advance together and the wall clock may also be set, forward or
\* back, at any moment.
\*   call.last    self._last_request_time
\*   call.at      Option of the real time of the latest request
\*   call.prev    Option of the real time of the request before it
\*   call.jumped  the wall clock has been set since the fetcher was constructed
InitRate ==
  /\ cfg \in [rate_limit_delay : 0..MaxDelay]
  /\ remote = << >>
  /\ input = NoInput
  /\ EmptyDisk
  /\ NoProcess
  /\ procs = NoProcs
  /\ call = [fn |-> "rate", mono |-> 0, wall |-> MaxTime, last |-> 0, at |-> << >>,
             prev |-> << >>, jumped |-> FALSE]

\* time passes: the caller works, a backoff sleeps, a response is awaited
Tick ==
  /\ call.fn = "rate"
  /\ call.mono < MaxTime
  /\ call' = [call EXCEPT !.mono = call.mono + 1, !.wall = call.wall + 1]
  /\ UNCHANGED <<procs, cfg, remote, input, parts, partTmp, ckptFile, ckptTmp, manFile,
                 manTmp, pc, op, args, manifest, checkpoint, g, hist>>

\* the wall clock is set (NTP step, an operator, a suspended machine)
ClockSet(d) ==
  /\ call.fn = "rate"
  /\ call.mono < MaxTime
  /\ call.wall + d >= 0 /\ call.wall + d <= 2 * MaxTime
  /\ call' = [call EXCEPT !.wall = call.wall + d, !.jumped = TRUE]
  /\ UNCHANGED <<procs, cfg, remote, input, parts, partTmp, ckptFile, ckptTmp, manFile,
                 manTmp, pc, op, args, manifest, checkpoint, g, hist>>

\* the sleep of _rate_limit: the time to wait, 0 when it does not sleep
RateLimitSleep(now, last) ==
  IF cfg.rate_limit_delay > 0 /\ now - last < cfg.rate_limit_delay
  THEN cfg.rate_limit_delay - (now - last) ELSE 0

\* _rate_limit() and the client.get that follows it in _request_with_backoff
RateLimitedRequest ==
  /\ call.fn = "rate"
  /\ call.mono < MaxTime
  /\ LET wait == RateLimitSleep(call.wall, call.last)
     IN call' = [call EXCEPT !.mono = call.mono + wait,
                             !.wall = call.wall + wait,
                             !.last = call.wall + wait,
                             !.prev = call.at,
                             !.at = <<call.mono + wait>>]
  /\ UNCHANGED <<procs, cfg, remote, input, parts, partTmp, ckptFile, ckptTmp, manFile,
                 manTmp, pc, op, args, manifest, checkpoint, g, hist>>

NextRate ==
  \/ Tick
  \/ \E d \in (-MaxDelay..MaxDelay) \ {0} : ClockSet(d)
  \/ RateLimitedRequest

SpecRate == InitRate /\ [][NextRate]_vars

\* SpecProgress: update_progress on CheckpointState objects.  CheckpointState
\* is not frozen and files_written is a list, an object of its own: call.heap
\* maps the identity of each list to its items and a state object holds the
\* identity of its list.
\*   call.recv    the receiver of the call made last (of the next one before)
\*   call.before  the value of the receiver when the call was made
\*   call.arg     the arguments of the call, call.ret Option of what it returned
\*   call.n       the calls made
Deref(heap, s) == [s EXCEPT !.files_written = heap[s.files_written]]

NewList(heap) == Cardinality(DOMAIN heap) + 1

ListAlias(heap, id) == [heap |-> heap, id |-> id]

\* list(self.files_written): a new list with the same items
ListCopy(heap, id) == [heap |-> Put(heap, NewList(heap), heap[id]), id |-> NewList(heap)]

\* update_progress on the heap: [heap, ret]
UpdateProgressOn(heap, s, timestamp_ms, page, trades_count, file_written) ==
  LET c == ListCopy(heap, s.files_written)
      files == c.id
      h == IF file_written # << >> /\ file_written[1] \notin Range(c.heap[files])
           THEN [c.heap EXCEPT ![files] = Append(c.heap[files], file_written[1])]
           ELSE c.heap
  IN [heap |-> h,
      ret |-> [UpdateProgress(Deref(heap, s), timestamp_ms, page, trades_count, << >>)
                 EXCEPT !.files_written = files]]

ProgressPaths == {"a.parquet", "b.parquet"}

\* the lists a checkpoint state starts with: no path twice
StartLists == {f \in UNION {[1..n -> ProgressPaths] : n \in 0..2} :
                 \A i, j \in DOMAIN f : f[i] = f[j] => i = j}

InitProgress ==
  /\ cfg = [batch_size |-> 1, flush_every_pages |-> 1, max_pages |-> MaxPages]
  /\ remote = << >>
  /\ input = NoInput
  /\ EmptyDisk
  /\ NoProcess
  /\ procs = NoProcs
  /\ \E files \in StartLists, n \in 0..1 :
       LET s == [CreateInitial(Cur) EXCEPT !.trades_fetched = n, !.files_written = 1]
       IN call = [fn |-> "progress", heap |-> <<files>>, recv |-> s,
                  before |-> Deref(<<files>>, s),
                  arg |-> [timestamp_ms |-> 0, page |-> 0, trades_count |-> 0,
                           file_written |-> << >>],
                  ret |-> << >>, n |-> 0]

\* state.update_progress(...) on the state built first or on the one returned
\* last
UpdateProgressCall(again, timestamp_ms, trades_count, file_written) ==
  /\ call.fn = "progress"
  /\ call.n < MaxCalls
  /\ again => call.ret # << >>
  /\ LET s == IF again THEN call.ret[1] ELSE call.recv
         page == s.last_page + 1
         r == UpdateProgressOn(call.heap, s, timestamp_ms, page, trades_count, file_written)
     IN call' = [call EXCEPT
                   !.heap = r.heap, !.recv = s, !.before = Deref(call.heap, s),
                   !.arg = [timestamp_ms |-> timestamp_ms, page |-> page,
                            trades_count |-> trades_count, file_written |-> file_written],
                   !.ret = <<r.ret>>, !.n = call.n + 1]
  /\ UNCHANGED <<procs, cfg, remote, input, parts, partTmp, ckptFile, ckptTmp, manFile,
                 manTmp, pc, op, args, manifest, checkpoint, g, hist>>

NextProgress ==
  \E again \in BOOLEAN, timestamp_ms \in 1..MaxTs, trades_count \in 0..MaxBatchLen,
     file_written \in {<< >>} \cup {<<p>> : p \in ProgressPaths} :
    UpdateProgressCall(again, timestamp_ms, trades_count, file_written)

SpecProgress == InitProgress /\ [][NextProgress]_vars

\* SpecSync: sync_currency on a store that an earlier download has filled with
\* every parseable remote trade up to some moment.  A second lasts SecondMs
\* ticks of the model's millisecond clock; the sync ends at EndTs.
\*   call.last  Option of what get_last_trade_timestamp returned
StoredUpTo(t0) == ParseAll(SelectSeq(remote, LAMBDA r : r.ts <= t0))

InitSync ==
  /\ cfg \in Configs
  /\ remote \in Remotes
  /\ input = NoInput
  /\ procs = NoProcs
  /\ partTmp = EmptyFn /\ ckptFile = EmptyFn /\ ckptTmp = EmptyFn
  /\ manFile = EmptyFn /\ manTmp = EmptyFn
  /\ \E t0 \in 0..MaxTs :
       parts \in SavedDirs(EmptyFn, Cur, StoredUpTo(t0), SortedDates(StoredUpTo(t0)))
  /\ NoProcess
  /\ call = [fn |-> "sync", last |-> << >>]

\* sync_currency up to the for loop: "if not last_ts: return 0", else the
\* fetch starts at last_ts + timedelta(seconds=1)
SyncStart ==
  /\ call.fn = "sync" /\ pc = "idle"
  /\ LET last_ts == LastTradeTimestamp(parts, Cur).last
     IN /\ call' = [call EXCEPT !.last = last_ts]
        /\ IF last_ts = << >>
           THEN /\ pc' = "returned"
                /\ UNCHANGED <<g, manifest>>
           ELSE /\ pc' = "sync"
                /\ g' = [GenStart(<< >>) EXCEPT !.start_timestamp = last_ts[1] + SecondMs]
                /\ manifest' = LoadManifest(manFile)
  /\ partTmp' = StorageInit(partTmp)
  /\ UNCHANGED <<procs, cfg, remote, input, parts, ckptFile, ckptTmp, manFile, manTmp,
                 op, args, checkpoint, hist>>

\* one pass of the for loop: the generator runs to its next batch, which is
\* saved and whose files are entered in the manifest; when the generator is
\* exhausted manifest.save() ends the sync
SyncBatch ==
  /\ call.fn = "sync" /\ pc = "sync"
  /\ IF g.at = "end"
     THEN /\ manFile' = Put(manFile, ManifestPath, File(ManifestDoc(manifest)))
          /\ pc' = "synced"
          /\ UNCHANGED <<g, parts, manifest>>
     ELSE /\ g' = GenStep(g)
          /\ pc' = "sync"
          /\ UNCHANGED manFile
          /\ IF Yields(g')
             THEN LET days == SortedDates(g'.batch)
                      written == [i \in DOMAIN days |-> <<Cur, days[i]>>]
                  IN \E dir \in SavedDirs(parts, Cur, g'.batch, days) :
                       /\ parts' = dir
                       /\ manifest' = UpdateFiles(manifest, dir, written)
             ELSE UNCHANGED <<parts, manifest>>
  /\ UNCHANGED <<call, procs, cfg, remote, input, partTmp, ckptFile, ckptTmp, manTmp,
                 op, args, checkpoint, hist>>

NextSync == SyncStart \/ SyncBatch

SpecSync == InitSync /\ [][NextSync]_vars

\* SpecDlq: a backfill and its dead-letter queue.  fetch_trades_streaming is
\* driven with the parameters it declares; _parse_trade answers None for a
\* record it drops and nothing in the fetcher calls DeadLetterQueue.add.
\*   call.stats     dlq._stats: <currency, day> -> failures added
\*   call.dropped   the records _parse_trade has dropped in this run
\*   call.reported  Option of dlq.get_total_failures(currency) at the end
RECURSIVE SumOver(_, _)
SumOver(f, keys) ==
  IF keys = {} THEN 0
  ELSE LET k == CHOOSE x \in keys : TRUE IN f[k] + SumOver(f, keys \ {k})

\* DeadLetterQueue.get_total_failures(currency)
GetTotalFailures(stats, c) == SumOver(stats, {k \in DOMAIN stats : k[1] = c})

\* the records of a page that _parse_trade drops
Dropped(trades) == Cardinality({i \in DOMAIN trades : ParseTrade(trades[i]) = << >>})

InitDlq ==
  /\ cfg \in Configs
  /\ remote \in Remotes
  /\ input = NoInput
  /\ procs = NoProcs
  /\ EmptyDisk
  /\ NoProcess
  /\ call = [fn |-> "dlq", stats |-> EmptyFn, dropped |-> 0, reported |-> << >>]

\* backfill up to the for loop
DlqStart ==
  /\ call.fn = "dlq" /\ pc = "idle"
  /\ checkpoint' = <<CreateInitial(Cur)>>
  /\ g' = GenStart(<< >>)
  /\ manifest' = LoadManifest(manFile)
  /\ ckptTmp' = CleanupStaleTemps(ckptTmp)
  /\ partTmp' = StorageInit(partTmp)
  /\ pc' = "run"
  /\ UNCHANGED <<call, procs, cfg, remote, input, parts, ckptFile, manFile, manTmp,
                 op, args, hist>>

\* one pass of the for loop: the generator runs to its next request or batch;
\* a batch is saved, entered in the manifest and checkpointed
DlqBatch ==
  /\ call.fn = "dlq" /\ pc = "run"
  /\ g.at # "end"
  /\ g' = GenStep(g)
  /\ call' = [call EXCEPT
                !.dropped = IF SendsRequest(g)
                            THEN call.dropped + Dropped(Response(g.start_timestamp).trades)
                            ELSE call.dropped]
  /\ IF Yields(g')
     THEN LET days == SortedDates(g'.batch)
              written == [i \in DOMAIN days |-> <<Cur, days[i]>>]
              next == UpdateProgress(checkpoint[1], Last(g'.batch).ts,
                                     checkpoint[1].last_page + cfg.flush_every_pages,
                                     Len(g'.batch), <<Last(written)>>)
          IN \E dir \in SavedDirs(parts, Cur, g'.batch, days) :
               /\ parts' = dir
               /\ manifest' = UpdateFiles(manifest, dir, written)
               /\ checkpoint' = <<next>>
               /\ ckptFile' = Put(ckptFile, Cur, File(next))
     ELSE UNCHANGED <<parts, manifest, checkpoint, ckptFile>>
  /\ UNCHANGED <<procs, cfg, remote, input, partTmp, ckptTmp, manFile, manTmp,
                 pc, op, args, hist>>

\* after the loop: manifest.save(), checkpoint_mgr.delete(currency) and the
\* report of dlq.get_total_failures(currency)
DlqReport ==
  /\ call.fn = "dlq" /\ pc = "run"
  /\ g.at = "end"
  /\ manFile' = Put(manFile, ManifestPath, File(ManifestDoc(manifest)))
  /\ ckptFile' = Drop(ckptFile, Cur)
  /\ call' = [call EXCEPT !.reported = <<GetTotalFailures(call.stats, Cur)>>]
  /\ pc' = "done"
  /\ UNCHANGED <<procs, cfg, remote, input, parts, partTmp, ckptTmp, manTmp,
                 op, args, manifest, checkpoint, g, hist>>

NextDlq == DlqStart \/ DlqBatch \/ DlqReport

SpecDlq == InitDlq /\ [][NextDlq]_vars

\* ------------------------------------------------------------- properties
\* the number of rows of a table for which P holds
Count(rows, P(_)) == Cardinality({i \in DOMAIN rows : P(rows[i])})

Ids(rows) == {rows[i].id : i \in DOMAIN rows}

\* the client of SpecSave has saved its batch at least twice and no save is
\* in progress
SavedTwice == pc = "client" /\ Idle /\ hist.calls >= 2

\* C1: after save_trades(B, c) has been called twice on an initially empty
\* store, load_trades(c) holds exactly one row for each distinct trade
\* identifier occurring in B, and no other row.
C1_OneRowPerId ==
  SavedTwice =>
    LET rows == LoadTrades(parts, input.cur)
    IN /\ \A t \in Range(input.batch) : Count(rows, LAMBDA r : r.id = t.id) = 1
       /\ Ids(rows) = Ids(input.batch)

\* the parseable trades of the remote history with a timestamp in [start, end]
Parseable == SelectSeq(remote, LAMBDA r : r.ok /\ r.ts >= StartTs /\ r.ts <= EndTs)

\* the call is over and its loop ended on has_more = false or on an empty page
EndedNormally == g.at = "end" /\ (g.why \in {"no_more", "empty"} \/ ~g.has_more)

\* C4: a fetch_trades_streaming call that ends on has_more = false or on an
\* empty page has yielded each parseable remote trade of the range exactly
\* once.
C4_EachTradeOnce ==
  (pc = "fetch" /\ EndedNormally) =>
    /\ \A r \in Range(Parseable) : Count(hist.out, LAMBDA t : t.id = r.id) = 1
    /\ Len(hist.out) = Len(Parseable)

\* the trades one uninterrupted backfill of the range stores
Uninterrupted == Drain(GenStart(<< >>))

\* rows holds the trades of ref: the same identifiers, none of them twice
SameTrades(rows, ref) ==
  /\ Ids(rows) = Ids(ref)
  /\ Len(rows) = Cardinality(Ids(ref))

\* C2: a backfill that crashed at any step and was run again with --resume
\* until it completed has stored the trades one uninterrupted run stores, no
\* identifier twice and none missing.
C2_CrashRecoveryExactlyOnce ==
  (pc = "done" /\ hist.crashes > 0 /\ ~hist.norsm) =>
    SameTrades(LoadTrades(parts, Cur), Uninterrupted)

\* C3: a backfill stopped right after the checkpoint save of a batch and
\* continued by a second run that resumes from that checkpoint's timestamp has
\* stored the same trade identifiers, in the same number, as a single
\* uninterrupted run.
C3_ResumeAtBatchBoundary ==
  (pc = "done" /\ hist.crashes = 1 /\ ~hist.midcrash /\ ~hist.norsm) =>
    LET rows == LoadTrades(parts, Cur)
    IN /\ Ids(rows) = Ids(Uninterrupted)
       /\ Len(rows) = Len(Uninterrupted)

\* C9: from one state of <currency>_checkpoint.json to the next, the persisted
\* last_timestamp_ms and trades_fetched of a currency never decrease, whether
\* the backfill is fresh, resumed, or started without --resume over an
\* existing checkpoint.
C9_CheckpointMonotonic ==
  [][\A c \in (DOMAIN ckptFile) \cap (DOMAIN ckptFile') :
       (LoadCheckpoint(ckptFile, c) # << >> /\ LoadCheckpoint(ckptFile', c) # << >>) =>
         /\ LoadCheckpoint(ckptFile', c)[1].last_timestamp_ms
              >= LoadCheckpoint(ckptFile, c)[1].last_timestamp_ms
         /\ LoadCheckpoint(ckptFile', c)[1].trades_fetched
              >= LoadCheckpoint(ckptFile, c)[1].trades_fetched]_vars

\* the backfill stands between two batches: the checkpoint save of a batch has
\* returned and the next batch has not been asked for
BetweenBatches == pc = "ckpt" /\ op = "ret"

\* the latest timestamp among the stored trades of a currency (0 when none)
LatestStored(dir, c) ==
  LET rows == LoadTrades(dir, c)
  IN IF rows = << >> THEN 0
     ELSE CHOOSE m \in {rows[i].ts : i \in DOMAIN rows} :
            \A i \in DOMAIN rows : rows[i].ts <= m

\* C10: between two batches of a backfill every partition file the run has
\* written has an entry in manifest.json on disk whose hash and size match the
\* file, and the persisted checkpoint timestamp does not exceed the latest
\* stored trade.
C10_ConsistentBetweenBatches ==
  BetweenBatches =>
    /\ \A p \in hist.ran : VerifyFile(LoadManifest(manFile), parts, p)
    /\ LoadCheckpoint(ckptFile, Cur) # << >>
    /\ LoadCheckpoint(ckptFile, Cur)[1].last_timestamp_ms <= LatestStored(parts, Cur)

\* what load returns for a checkpoint file: << >> for no file
Loaded(file) == IF file = << >> THEN << >> ELSE <<file[1].data>>

\* the file at the target of the write begun last
Target ==
  CASE hist.w.kind = "ckpt"     -> Lookup(ckptFile, hist.w.path)
    [] hist.w.kind = "part"     -> Lookup(parts, hist.w.path)
    [] hist.w.kind = "manifest" -> Lookup(manFile, hist.w.path)
    [] OTHER                    -> << >>

\* the temp file of the write begun last
TargetTemp ==
  CASE hist.w.kind = "ckpt"     -> Lookup(ckptTmp, hist.w.path)
    [] hist.w.kind = "part"     -> Lookup(partTmp, hist.w.path)
    [] hist.w.kind = "manifest" -> Lookup(manTmp, hist.w.path)
    [] OTHER                    -> << >>

\* the process died inside the write begun last, between the creation of the
\* temp file and the rename
CrashedInWrite ==
  /\ pc = "idle"
  /\ hist.crashes > 0
  /\ TargetTemp # << >>

\* C5: at every step of CheckpointManager.save(new), a crash inside it
\* included, load(currency) returns the complete state saved before or the
\* complete new state.
C5_CheckpointSaveAtomic ==
  hist.w.kind = "ckpt" =>
    /\ LoadCheckpoint(ckptFile, hist.w.path) \in {Loaded(hist.w.old), Loaded(hist.w.new)}
    /\ Target # << >> => Target[1].whole

\* C5 witness: the process died inside a checkpoint save over an existing
\* checkpoint of another state, before the rename
C5_Witness ==
  /\ CrashedInWrite
  /\ hist.w.kind = "ckpt"
  /\ hist.w.old # << >>
  /\ hist.w.old # hist.w.new

\* C6: while save_trades, save_dvol or ManifestManager.save rewrites a file,
\* a crash at any point included, the target file holds its complete old
\* content or its complete new content.
C6_RewriteKeepsTarget ==
  hist.w.kind \in {"part", "manifest"} =>
    /\ Target \in {hist.w.old, hist.w.new}
    /\ Target # << >> => Target[1].whole

\* C6 witness: the process died while save_trades was rewriting an existing
\* partition with other content, before the rename
C6_Witness ==
  /\ CrashedInWrite
  /\ hist.w.kind = "part"
  /\ hist.w.path[2] # DvolName
  /\ hist.w.old # << >>
  /\ hist.w.old # hist.w.new

\* C7: when every operation so far has returned (no crash), no temp file
\* exists in the checkpoint directory or under the catalog root.
C7_NoTempAfterSuccess ==
  (pc = "client" /\ Idle /\ hist.crashes = 0) =>
    /\ ckptTmp = EmptyFn
    /\ partTmp = EmptyFn
    /\ manTmp = EmptyFn

\* C7 witness: two operations have returned and left a checkpoint and a
\* partition or a manifest on disk
C7_Witness ==
  /\ pc = "client" /\ Idle /\ hist.crashes = 0
  /\ hist.calls >= 2
  /\ ckptFile # EmptyFn
  /\ parts # EmptyFn \/ manFile # EmptyFn

\* the stores have just been constructed again after a crash
Restarted == pc = "client" /\ op = "none" /\ hist.crashes > 0

\* C8: once the stores are constructed again after a crash inside a write,
\* the temp file of that write does not exist and the target is not partially
\* written.
C8_SelfHealing ==
  Restarted =>
    /\ TargetTemp = << >>
    /\ Target # << >> => Target[1].whole

\* a backfill that was interrupted and run again with --resume has completed
ResumedToCompletion == pc = "done" /\ hist.crashes > 0 /\ ~hist.norsm

\* C11: after an interrupted backfill resumed with --resume has run to
\* completion, every partition file on disk has an entry in the saved
\* manifest and verify_all of a freshly loaded manifest reports no failure.
C11_ManifestCoversPartitions ==
  ResumedToCompletion =>
    /\ \A p \in DOMAIN parts : p \in DOMAIN LoadManifest(manFile)
    /\ FailedFiles(LoadManifest(manFile), parts) = {}

\* the UTC days of the trades of a table
Days(rows) == {DateKey(rows[i].ts) : i \in DOMAIN rows}

\* C12: on a fresh store, a completed run of a fetch that yields N distinct
\* trades spanning D UTC days leaves exactly D partition files, each holding
\* only trades of its own day, N rows in total, and a saved manifest with
\* exactly D entries whose hashes match the files.
C12_EndToEnd ==
  pc = "done" =>
    LET m == LoadManifest(manFile)
    IN /\ DOMAIN parts = {<<Cur, d>> : d \in Days(Uninterrupted)}
       /\ \A p \in DOMAIN parts : Days(parts[p].data) = {p[2]}
       /\ Len(LoadTrades(parts, Cur)) = Len(Uninterrupted)
       /\ Ids(LoadTrades(parts, Cur)) = Ids(Uninterrupted)
       /\ DOMAIN m = DOMAIN parts
       /\ \A p \in DOMAIN parts : VerifyFile(m, parts, p)

\* C12 witness: a completed run of several batches has stored three trades or
\* more on two days
C12_Witness ==
  /\ pc = "done"
  /\ Len(Uninterrupted) >= 3
  /\ Cardinality(Days(Uninterrupted)) = 2
  /\ checkpoint[1].last_page >= 2 * cfg.flush_every_pages
  /\ Cardinality(DOMAIN parts) = 2

\* C13: in a ManifestManager loaded from the saved snapshot, verify_file of a
\* file is true exactly when the file was registered by update_file before
\* the save and its bytes are those registered: false once the bytes have
\* changed, false for a path with no entry.
C13_ManifestRoundTrip ==
  (call.fn = "manifest" /\ call.fresh /\ Idle) =>
    \A p \in ManifestPaths :
      VerifyFile(manifest, parts, p) <=> (p \in DOMAIN call.reg /\ call.reg[p] = parts[p])

\* C13 witness: a freshly loaded manifest holds a file that verifies, a file
\* whose bytes changed after registration to others of the same size, and the
\* snapshot came from disk
C13_Witness ==
  /\ call.fn = "manifest" /\ call.fresh /\ Idle
  /\ manFile # EmptyFn
  /\ \E p \in ManifestPaths : p \in DOMAIN call.reg /\ call.reg[p] = parts[p]
  /\ \E p \in ManifestPaths :
       /\ p \in DOMAIN call.reg
       /\ call.reg[p] # parts[p]
       /\ Len(call.reg[p].data) = Len(parts[p].data)

\* C14: when two currencies have been ingested at once against one store
\* root, whatever the interleaving, manifest.json holds a matching entry for
\* every partition file of both currencies.
C14_ManifestKeepsBothCurrencies ==
  (procs # NoProcs /\ \A c \in Currencies : procs[c].pc = "done") =>
    \A p \in DOMAIN parts : VerifyFile(LoadManifest(manFile), parts, p)

\* C15: with two currencies sharing one checkpoint directory, the temp file
\* of a checkpoint save in progress is never removed by the other currency's
\* CheckpointManager, and no save fails.
C15_CheckpointTempsNotShared ==
  procs # NoProcs =>
    \A c \in Currencies :
      /\ procs[c].pc = "ckpt_rename" => c \in DOMAIN ckptTmp
      /\ procs[c].raised = ""

Requests == Count(call.log, LAMBDA e : e.ev = "request")

Succeeded(resp) == resp.error = "" /\ resp.status < 400

Retryable(resp) ==
  resp.error = "RequestError" \/ resp.status = 429 \/ resp.status >= 500

\* C16: a _request_with_backoff call issues at most max_retries requests; it
\* returns the JSON of the first successful response and does nothing after
\* that request; when every attempt met a 429, a 5xx or a transport error it
\* raises RuntimeError once max_retries requests have been issued.
C16_BoundedRetry ==
  call.fn = "request" =>
    LET seen == call.responses
        n == Len(seen)
    IN /\ Requests <= cfg.max_retries
       /\ Requests = n
       /\ \A i \in 1..n :
            Succeeded(seen[i]) =>
              /\ i = n /\ call.done /\ call.raised = ""
              /\ call.result = <<seen[i].body>>
              /\ Last(call.log).ev = "request"
       /\ call.result # << >> => (n > 0 /\ Succeeded(seen[n]))
       /\ (call.done /\ \A i \in 1..n : Retryable(seen[i])) =>
            (call.raised = "RuntimeError" /\ n = cfg.max_retries /\ call.result = << >>)
       /\ call.raised = "RuntimeError" =>
            (n = cfg.max_retries /\ \A i \in 1..n : Retryable(seen[i]))

\* a call that returned a response on its last allowed attempt
C16_Witness ==
  /\ call.fn = "request" /\ call.done
  /\ cfg.max_retries = MaxRetries
  /\ Len(call.responses) = MaxRetries
  /\ call.result # << >>

\* C17: a status error that is neither 429 nor >= 500 leaves
\* _request_with_backoff on the attempt where it occurs: the request that met
\* it is the last thing the call did, no sleep and no request follows.
C17_ClientErrorPropagates ==
  call.fn = "request" =>
    \A i \in DOMAIN call.responses :
      (IsStatusError(call.responses[i]) /\ ~Retryable(call.responses[i])) =>
        /\ i = Len(call.responses)
        /\ call.done /\ call.raised = "HTTPStatusError" /\ call.result = << >>
        /\ Last(call.log).ev = "request"

C17_Witness ==
  /\ call.fn = "request" /\ call.done
  /\ call.raised = "HTTPStatusError"
  /\ Len(call.responses) > 1

\* a record the claim calls well formed: every key holds a usable value (iv
\* may be null)
WellFormed(raw) == raw = GoodRecord \/ raw = [GoodRecord EXCEPT !.iv = "null"]

\* C18: a malformed record never aborts the batch: nothing is raised while a
\* page is parsed, every malformed record is dropped and every well-formed
\* record parsed so far is in the batch.
C18_MalformedRecordDroppedAlone ==
  call.fn = "parse" =>
    /\ call.raised = ""
    /\ \A j \in 1..(call.i - 1) :
         WellFormed(call.page[j]) <=> (\E k \in DOMAIN call.batch : call.batch[k] = j)

\* a content the claim lists: a missing file, text that is no JSON, JSON
\* whose top level is no object, an object with a required key absent or a
\* key of the wrong type
BadCheckpoint(content) ==
  \/ content = << >>
  \/ content[1].kind # "object"
  \/ \E f \in CheckpointFields : content[1].fields[f] = "bad"
  \/ \E f \in RequiredFields : content[1].fields[f] = "absent"

\* C19: CheckpointManager.load returns None and raises nothing whatever the
\* checkpoint file holds: missing, empty, truncated, no JSON, JSON with a
\* top level that is no object, an object with missing or ill-typed fields.
C19_LoadNeverRaises ==
  (call.fn = "load" /\ call.done /\ BadCheckpoint(call.content)) =>
    (call.raised = "" /\ call.result = << >>)

\* a manifest.json the claim lists: no JSON, a top level that is no object,
\* or an object in which some member of "files" lacks a required key
BadManifest(doc) ==
  \/ doc.kind # "object"
  \/ \E i \in DOMAIN doc.files : ~(EntryKeys \subseteq doc.files[i].keys)

\* C20: constructing a ManifestManager over such a manifest.json raises
\* nothing and leaves file_count = 0, no entry loaded.
C20_ConstructNeverRaises ==
  (call.fn = "construct" /\ call.done /\ BadManifest(call.doc)) =>
    (call.raised = "" /\ Cardinality(DOMAIN call.entries) = 0)

\* C21: verify_all visits every manifest entry: passed + failed is the number
\* of entries, failed_files is exactly the entries whose file is missing or
\* differs from the entry in hash or size, and the call changes neither the
\* manifest entries nor the files.
C21_VerifyAllVisitsEveryEntry ==
  [][(call'.fn = "manifest" /\ call'.out.op = "verify_all" /\ call'.out # call.out) =>
       /\ manifest' = manifest /\ parts' = parts /\ manFile' = manFile
       /\ call'.out.passed + call'.out.failed = Cardinality(DOMAIN manifest)
       /\ Len(call'.out.failed_files) = call'.out.failed
       /\ Range(call'.out.failed_files) =
            {p \in DOMAIN manifest :
               \/ p \notin DOMAIN parts
               \/ manifest[p].sha256 # parts[p]
               \/ manifest[p].size_bytes # Len(parts[p].data)}]_vars

\* verify_all has met a missing file first and a file that passes after it
C21_Witness ==
  /\ call.fn = "manifest" /\ call.out.op = "verify_all"
  /\ call.out.passed = 1 /\ call.out.failed = 1
  /\ call.out.failed_files = <<<<"BTC", 0>>>>
  /\ <<"BTC", 0>> \notin DOMAIN parts

\* C22: verify_file on a path that has a manifest entry but whose file no
\* longer exists returns False and raises nothing.
C22_VerifyMissingFileReturnsFalse ==
  (call.fn = "manifest" /\ call.out.op = "verify_file"
     /\ call.out.listed /\ call.out.missing) =>
    (call.out.raised = "" /\ call.out.result = FALSE)

\* C23: backfill deletes the checkpoint only when the stream ended on
\* has_more = false or on an empty page, that is when the fetch covered the
\* requested range; a run cut short by the page ceiling keeps its checkpoint.
C23_CheckpointDeletedOnlyWhenComplete ==
  [][(Cur \in DOMAIN ckptFile /\ Cur \notin DOMAIN ckptFile') =>
       (g.why \in {"no_more", "empty"} \/ ~g.has_more)]_vars

\* C24: when a backfill aborts with an error the checkpoint file stays what
\* the last completed save made it (absent when none completed): the abort
\* leaves it alone, and the only steps that ever change it are the rename
\* that completes a save and the delete after a successful run; the file is
\* never a partly written one.
C24_AbortKeepsCheckpoint ==
  [][/\ Abort => ckptFile' = ckptFile
     /\ ckptFile' # ckptFile =>
          \/ op = "ck_rename" /\ ckptFile' = Put(ckptFile, Cur, File(checkpoint[1]))
          \/ pc = "finish" /\ op = "ret" /\ ckptFile' = Drop(ckptFile, Cur)
     /\ \A c \in DOMAIN ckptFile' : ckptFile'[c].whole]_vars

\* a run was aborted inside a checkpoint save that followed a completed one
C24_Witness ==
  /\ pc = "failed"
  /\ Cur \in DOMAIN ckptFile /\ Cur \in DOMAIN ckptTmp
  /\ ckptTmp[Cur].data # ckptFile[Cur].data

\* C25: the checkpoint store is a map from currency to state: load(c) returns
\* the state saved last for c, equal in every field, and None after a
\* delete or before any save; exists(c) is true exactly between a save and
\* the next delete; delete(c) returns true iff a checkpoint of c existed; an
\* operation on one currency leaves the other currency's checkpoint as it was.
C25_CheckpointStoreIsMap ==
  call.fn = "checkpoint" =>
    /\ call.op = "load" => call.state = call.map[call.cur]
    /\ call.op = "exists" => (call.flag <=> call.map[call.cur] # << >>)
    /\ call.op = "delete" => (call.flag <=> call.had)
    /\ \A c \in Currencies :
         /\ CheckpointPath(c) \in DOMAIN ckptFile <=> call.map[c] # << >>
         /\ call.map[c] # << >> =>
              ParseState(ckptFile[CheckpointPath(c)].data) = call.map[c][1]

\* load returned a saved state of one currency while the other has none
C25_Witness ==
  /\ call.fn = "checkpoint" /\ call.op = "load" /\ call.cur = "BTC"
  /\ call.state # << >> /\ call.state[1].last_flush_at # << >>
  /\ call.map["ETH"] = << >>
  /\ call.state[1].files_written # << >>

\* the save_trades calls of SpecSaves that have returned
Returned ==
  IF Idle THEN call.given ELSE SubSeq(call.given, 1, Len(call.given) - 1)

\* C26: after any sequence of save_trades calls every partition file holds
\* only trades of the day in its name, and every trade of a call that has
\* returned is found, by its identifier, in the partition of its day under
\* the currency it was saved for.
C26_PartitionHoldsOwnDay ==
  call.fn = "saves" =>
    /\ \A p \in DOMAIN parts : p[2] # DvolName /\ Days(parts[p].data) = {p[2]}
    /\ \A k \in DOMAIN Returned :
         \A i \in DOMAIN Returned[k].batch :
           LET t == Returned[k].batch[i]
               p == <<Returned[k].cur, DateKey(t.ts)>>
           IN p \in DOMAIN parts /\ t.id \in Ids(parts[p].data)

\* two calls have stored trades of two days for one currency and of one day
\* for the other
C26_Witness ==
  /\ call.fn = "saves" /\ Idle /\ Len(call.given) = 2
  /\ DOMAIN parts = {<<"BTC", 0>>, <<"BTC", 1>>, <<"ETH", 1>>}

\* the last save_trades call of SpecSaves has returned
SaveReturned == call.fn = "saves" /\ args.fn = "save_trades" /\ op = "ret"

\* C27: save_trades returns exactly the partition files it wrote: one path
\* per distinct day of the batch, each existing when it returns, no other
\* file changed; for an empty batch it returns [] and changes nothing on disk.
C27_ReturnsFilesWritten ==
  SaveReturned =>
    LET written == args.written
        days == Days(args.batch)
    IN /\ Range(written) = {<<args.cur, d>> : d \in days}
       /\ Len(written) = Cardinality(days)
       /\ \A p \in Range(written) : p \in DOMAIN parts /\ parts[p].whole
       /\ \A p \in (DOMAIN parts \cup DOMAIN call.before) \ Range(written) :
            Lookup(parts, p) = Lookup(call.before, p)
       /\ partTmp = EmptyFn
       /\ args.batch = << >> => (written = << >> /\ parts = call.before)

\* a call returned two files, one of them merged into an existing partition
C27_Witness ==
  /\ SaveReturned
  /\ Len(args.written) = 2
  /\ \E p \in Range(args.written) : p \in DOMAIN call.before

\* the trades supplied for partition p by the calls that have returned, in
\* the order they were supplied
RECURSIVE Supplied(_, _)
Supplied(calls, p) ==
  IF calls = << >> THEN << >>
  ELSE (IF Head(calls).cur = p[1] THEN DateTrades(Head(calls).batch, p[2]) ELSE << >>)
         \o Supplied(Tail(calls), p)

\* C28: after any sequence of save_trades calls every partition file holds
\* at most one row per trade identifier, that row is the occurrence of the
\* identifier supplied last, and the rows are in ascending timestamp order,
\* on the first write of a day as on a merge.
C28_PartitionDedupedAndSorted ==
  (call.fn = "saves" /\ Idle) =>
    \A p \in DOMAIN parts :
      LET rows == parts[p].data
          given == Supplied(Returned, p)
      IN /\ \A i, j \in DOMAIN rows : rows[i].id = rows[j].id => i = j
         /\ \A i \in DOMAIN rows :
              \E k \in DOMAIN given :
                /\ given[k] = rows[i]
                /\ \A l \in DOMAIN given : given[l].id = rows[i].id => l <= k
         /\ \A i, j \in DOMAIN rows : i < j => rows[i].ts <= rows[j].ts

\* C29: after any sequence of save_trades calls, get_last_trade_timestamp(c)
\* returns the maximum timestamp over all trades stored for c, None when no
\* trade is stored for c, and reads no file but the partition of c that
\* sorts last.
C29_LastTimestampIsMaximum ==
  (call.fn = "saves" /\ call.asked # "") =>
    LET rows == LoadTrades(parts, call.asked)
        days == TradeDays(parts, call.asked)
    IN /\ rows = << >> <=> call.last = << >>
       /\ rows # << >> =>
            /\ \E i \in DOMAIN rows : rows[i].ts = call.last[1]
            /\ \A i \in DOMAIN rows : rows[i].ts <= call.last[1]
       /\ \A p \in call.read : p[1] = call.asked /\ \A d \in days : d <= p[2]
       /\ Cardinality(call.read) <= 1

\* the call answered from the last of two partitions of the currency while
\* the other currency holds a later trade
C29_Witness ==
  /\ call.fn = "saves" /\ call.asked = "BTC"
  /\ TradeDays(parts, "BTC") = {0, 1}
  /\ call.last = <<2>>
  /\ <<"ETH", 1>> \in DOMAIN parts
  /\ \E i \in DOMAIN parts[<<"ETH", 1>>].data : parts[<<"ETH", 1>>].data[i].ts = 3

\* C30: every volatility candle fetch_dvol returns has high >= low: a row
\* whose high is below its low yields no candle.
C30_CandleHighAtLeastLow ==
  call.fn = "dvol" =>
    \A k \in DOMAIN call.candles : call.candles[k].high >= call.candles[k].low

\* C31 as stated: _parse_trade stores iv = raw / 100 whenever the raw
\* percentage is positive, and for a raw value of 0 or an absent one it still
\* produces the trade, with iv unknown (None).
C31_IvConversion ==
  (call.fn = "iv" /\ call.done /\ call.raw.rest = "ok") =>
    /\ (call.raw.iv.kind = "number" /\ call.raw.iv.v > 0) =>
         /\ call.out # << >>
         /\ call.out[1].iv # << >>
         /\ call.out[1].iv[1].n * Percent = call.raw.iv.v * call.out[1].iv[1].d
    /\ (call.raw.iv.kind \in {"missing", "null"} \/ call.raw.iv.v = 0) =>
         /\ call.out # << >>
         /\ call.out[1].iv = << >>

\* C31 amended: the conversion holds for a positive raw percentage up to 500
\* (a fraction of at most 5); a larger one makes _parse_trade return None.
C31_IvConversionInRange ==
  (call.fn = "iv" /\ call.done /\ call.raw.rest = "ok") =>
    /\ (call.raw.iv.kind = "number" /\ call.raw.iv.v > 0 /\ call.raw.iv.v <= IvLimit * Percent) =>
         /\ call.out # << >>
         /\ call.out[1].iv # << >>
         /\ call.out[1].iv[1].n * Percent = call.raw.iv.v * call.out[1].iv[1].d
    /\ (call.raw.iv.kind = "number" /\ call.raw.iv.v > IvLimit * Percent) =>
         call.out = << >>
    /\ (call.raw.iv.kind \in {"missing", "null"} \/ call.raw.iv.v = 0) =>
         /\ call.out # << >>
         /\ call.out[1].iv = << >>

\* a trade with a converted iv has been produced
C31_Witness ==
  /\ call.fn = "iv" /\ call.done
  /\ call.raw.iv = [kind |-> "number", v |-> 65]
  /\ call.out = <<[iv |-> <<[n |-> 65, d |-> 100]>>]>>

\* the trade is a row of the partition file of its currency and day
InPartition(dir, c, t) ==
  /\ <<c, DateKey(t.ts)>> \in DOMAIN dir
  /\ \E i \in DOMAIN dir[<<c, DateKey(t.ts)>>].data :
       dir[<<c, DateKey(t.ts)>>].data[i] = t

\* C32: in a backfill the partition files of a batch are written before their
\* manifest entries are updated, and those before the checkpoint of the batch
\* is saved: while the checkpoint save of a batch runs, every trade of the
\* batch is in its partition file and the manifest entries of the written
\* files match them; and whenever the checkpoint on disk records
\* last_timestamp_ms = T, every trade the backfill has been yielded so far with
\* timestamp <= T is in a partition file.
C32_SavedBeforeCheckpoint ==
  /\ pc = "ckpt" =>
       /\ \A t \in Range(args.batch) : InPartition(parts, Cur, t)
       /\ \A p \in Range(args.written) : VerifyFile(manifest, parts, p)
  /\ (pc \in {"fetch", "save", "ckpt", "finish"} /\ LoadCheckpoint(ckptFile, Cur) # << >>) =>
       \A t \in Range(hist.out) :
         t.ts <= LoadCheckpoint(ckptFile, Cur)[1].last_timestamp_ms
           => InPartition(parts, Cur, t)

\* the checkpoint of the second batch is on disk and both batches are stored
C32_Witness ==
  /\ pc = "ckpt" /\ op = "ret"
  /\ Len(hist.out) >= 2
  /\ hist.out[1].ts < Last(hist.out).ts
  /\ LoadCheckpoint(ckptFile, Cur) # << >>
  /\ LoadCheckpoint(ckptFile, Cur)[1].last_timestamp_ms = Last(hist.out).ts
  /\ LoadCheckpoint(ckptFile, Cur)[1].last_page > cfg.flush_every_pages

\* C33: one fetch_trades_streaming call sends at most max_pages requests,
\* whatever the server answers (and so comes to an end).
C33_AtMostMaxPagesRequests ==
  call.fn = "stream" => call.requests <= cfg.max_pages

RECURSIVE Flatten(_)
Flatten(ss) == IF ss = << >> THEN << >> ELSE Head(ss) \o Flatten(Tail(ss))

\* C34: once a fetch_trades_streaming call has ended, however it ended, the
\* batches it yielded, concatenated, are the parsed trades of the pages it
\* fetched, in order; and no batch it yields is empty.
C34_BatchingLosesNothing ==
  call.fn = "stream" =>
    /\ \A k \in DOMAIN call.batches : call.batches[k] # << >>
    /\ g.at = "end" => Flatten(call.batches) = call.fetched

\* a call cut at the page ceiling has yielded two batches, the second after
\* the loop
C34_Witness ==
  /\ call.fn = "stream" /\ g.at = "end" /\ g.why = "ceiling"
  /\ Len(call.batches) = 2
  /\ Len(call.fetched) >= 3
  /\ cfg.flush_every_pages = 2

\* the sleeps of the backoff, in order
Sleeps == SelectSeq(call.log, LAMBDA e : e.ev = "sleep")

\* C35: the sleep taken on attempt a (0-based) of one _request_with_backoff
\* call is backoff_base^(a+1) after a 429 response and backoff_base^a after a
\* 5xx response or a transport error.
C35_BackoffSchedule ==
  call.fn = "request" =>
    /\ Len(Sleeps) <= Len(call.responses)
    /\ \A i \in DOMAIN Sleeps :
         LET a == i - 1
             resp == call.responses[i]
         IN /\ resp.error = "RequestError" \/ resp.status = 429 \/ resp.status >= 500
            /\ Sleeps[i].wait = IF resp.error = "" /\ resp.status = 429
                                THEN Pow(cfg.backoff_base, a + 1)
                                ELSE Pow(cfg.backoff_base, a)

\* a 5xx on attempt 0, a 429 on attempt 1 and a transport error on attempt 2,
\* with base 2: sleeps of 1, 4 and 4
C35_Witness ==
  /\ call.fn = "request" /\ cfg.backoff_base = 2
  /\ Len(call.responses) = 3
  /\ call.responses[1].status = 503
  /\ call.responses[2].status = 429
  /\ call.responses[3].error = "RequestError"
  /\ [i \in DOMAIN Sleeps |-> Sleeps[i].wait] = <<1, 4, 4>>

\* C36: two consecutive requests of one fetcher are at least rate_limit_delay
\* apart in real time, however the wall clock behaves.
C36_RequestsSpacedByDelay ==
  (call.fn = "rate" /\ call.prev # << >>) =>
    call.at[1] - call.prev[1] >= cfg.rate_limit_delay

\* C37: update_progress returns a new state whose trades_fetched is the old
\* value plus trades_count and whose files_written is the old list plus
\* file_written when that is given and not yet in it, so that no path is in
\* the list twice; every field of the receiver is as it was before the call.
C37_UpdateProgressReturnsNewState ==
  (call.fn = "progress" /\ call.ret # << >>) =>
    LET old == call.before
        new == Deref(call.heap, call.ret[1])
        file == call.arg.file_written
    IN /\ new.trades_fetched = old.trades_fetched + call.arg.trades_count
       /\ new.last_timestamp_ms = call.arg.timestamp_ms
       /\ new.last_page = call.arg.page
       /\ new.currency = old.currency
       /\ new.files_written =
            IF file # << >> /\ file[1] \notin Range(old.files_written)
            THEN Append(old.files_written, file[1]) ELSE old.files_written
       /\ \A i, j \in DOMAIN new.files_written :
            new.files_written[i] = new.files_written[j] => i = j
       /\ Deref(call.heap, call.recv) = old
       /\ call.ret[1].files_written # call.recv.files_written

\* the second call was given a file the list already held and one call added
\* a file to the list
C37_Witness ==
  /\ call.fn = "progress" /\ call.n = 2
  /\ call.arg.file_written = <<"a.parquet">>
  /\ call.before.files_written = <<"b.parquet", "a.parquet">>
  /\ Deref(call.heap, call.ret[1]).files_written = <<"b.parquet", "a.parquet">>
  /\ Deref(call.heap, call.ret[1]).trades_fetched = 3

\* C38: between two batches of a backfill the checkpoint on disk lists, in
\* files_written, every partition file save_trades has returned to the run so
\* far.
C38_CheckpointListsWrittenFiles ==
  BetweenBatches =>
    /\ LoadCheckpoint(ckptFile, Cur) # << >>
    /\ hist.ran \subseteq Range(LoadCheckpoint(ckptFile, Cur)[1].files_written)

\* C39: after a completed sync no parseable remote trade later than the last
\* stored trade (as get_last_trade_timestamp returned it before the sync) and
\* not later than the end of the sync is missing from the store.
C39_SyncFetchesEveryNewTrade ==
  (call.fn = "sync" /\ pc = "synced") =>
    \A i \in DOMAIN remote :
      (remote[i].ok /\ remote[i].ts > call.last[1] /\ remote[i].ts <= EndTs) =>
        InPartition(parts, Cur, [id |-> remote[i].id, ts |-> remote[i].ts])

\* C40: the failure count a backfill reports at its end
\* (get_total_failures of the currency) is the number of records the fetcher
\* dropped while parsing.
C40_DroppedRecordsReachDeadLetters ==
  (call.fn = "dlq" /\ pc = "done") => call.reported = <<call.dropped>>

====
